---- MODULE Spec2Model ----
(***************************************************************************)
(* The request pipeline of the Random Facts API (src/app.py, src/models.py) *)
(* as a state machine: the four tables, the rate limiter's counters and the *)
(* requests in flight.  A request is a record that moves through            *)
(*   limiter -> jwt_required -> track_usage -> handler -> usage commit,     *)
(* and a handler is cut at each point where it goes to the database, since  *)
(* those are the points at which another request can run in between.        *)
(***************************************************************************)
EXTENDS Integers, Sequences, FiniteSets, TLC

VARIABLES
    User,       \* table user: the set of rows (models.py:7-13)
    Fact,       \* table fact: id -> row (models.py:32-38)
    Favorite,   \* table favorite: <<user_id, fact_id>> -> number of rows
    ApiUsage,   \* table api_usage: the rows in insertion order
    hits,       \* the limiter's counters of the one client address
    reqs,       \* the requests, in arrival order
    failures    \* storage failures injected so far

vars == <<User, Fact, Favorite, ApiUsage, hits, reqs, failures>>

(* ------------------------------ bounds ---------------------------------- *)

\* requests per behaviour
MaxReq == 2
\* requests per behaviour of SpecPick: it takes three picks of one fact for a
\* stored counter to go down
MaxPicks == 3
\* commits that the storage layer fails for a reason of its own
MaxFail == 1
\* requests per behaviour when they are sent one after the other
MaxSeq == 3
\* requests per behaviour of a client that sends bursts to /register and /login
MaxBurst == 6
\* minute windows of the limiter that end within a behaviour
MaxExpiry == 1
\* GET /facts requests per behaviour
MaxPages == 1

(* ------------------------- program constants ---------------------------- *)

DefaultPerMinute == 50
DefaultPerHour == 200
\* GET /facts: per_page when the query has none, and its cap
DefaultPerPage == 10
MaxPerPage == 50
\* per_page of Query.paginate() when error_out=False and the value given is
\* not one it accepts
PaginatePerPage == 20

\* limiter.limit("5 per minute") of register, limiter.limit("10 per minute")
\* of login
RegisterPerMinute == 5
LoginPerMinute == 10

\* get_jwt_identity() gives None when there is no identity
None == 0
\* the users whose bearer tokens the requests carry
UserIds == {1, 2}
\* ids of the rows of table fact, and an id that names no row
FactIds == {1, 2, 3}
AbsentFactId == Cardinality(FactIds) + 1

\* Fact rows as seed_test_data leaves them: active facts and an inactive one;
\* view_count is the column default.
FactSeed ==
    [f \in FactIds |->
        CASE f = 1 -> [category |-> "test",    is_active |-> TRUE,  view_count |-> 0]
          [] f = 2 -> [category |-> "science", is_active |-> TRUE,  view_count |-> 0]
          [] f = 3 -> [category |-> "test",    is_active |-> FALSE, view_count |-> 0]]

(* ------------------------------ passwords ------------------------------- *)

\* bcrypt: the hash carries its salt; the digest is a function of the salt and
\* the password that maps no two passwords to one digest (the tuple stands
\* for it).
Salts == {"s1", "s2"}
HashPw(password, salt) == [salt |-> salt, digest |-> <<salt, password>>]

\* User.check_password: hash the candidate with the stored salt and compare.
CheckPassword(password_hash, password) ==
    HashPw(password, password_hash.salt) = password_hash

\* Table user when the behaviour starts: two registered users, and one whose
\* account has been deactivated in the store.
UserSeed ==
    {[id |-> 1, username |-> "alice", email |-> "alice@x.com",
      password_hash |-> HashPw("pw1", "s1"), is_active |-> TRUE],
     [id |-> 2, username |-> "bob", email |-> "bob@x.com",
      password_hash |-> HashPw("pw2", "s2"), is_active |-> TRUE],
     [id |-> 3, username |-> "carol", email |-> "carol@x.com",
      password_hash |-> HashPw("pw1", "s2"), is_active |-> FALSE]}

(* -------------------------------- tokens -------------------------------- *)

\* Mutant of GetJwtIdentity: every token resolves to the first user.
FirstUserIdentity(token) == 1

\* create_access_token(identity=...): the claims the token is signed for.
CreateAccessToken(identity) == [sub |-> identity, kind |-> "valid"]
\* get_jwt_identity() of a request whose token jwt_required() has verified.
GetJwtIdentity(token) == token.sub
\* No Authorization header.
NoToken == [sub |-> None, kind |-> "none"]
\* A bearer value that does not decode, or whose signature does not verify.
MalformedToken == [sub |-> None, kind |-> "malformed"]
\* A token that was issued for `identity` and is past its expiry.
ExpiredToken(identity) == [sub |-> identity, kind |-> "expired"]

\* jwt_required() with the loaders JWTManager(app) installs (line 23; the
\* application sets none of its own): the status of the error response, None
\* when the token verifies.  A missing header and an expired token are
\* answered 401, a token that does not decode or verify 422.
JwtError(token) ==
    CASE token.kind = "valid" -> None
      [] token.kind = "malformed" -> 422
      [] OTHER -> 401
JwtMessage(token) ==
    CASE token.kind = "none" -> "Missing Authorization Header"
      [] token.kind = "expired" -> "Token has expired"
      [] OTHER -> "Invalid token"
\* The tokens of the users who logged in before the behaviour starts.
Tokens == {CreateAccessToken(u) : u \in UserIds}

(* ------------------------------ responses ------------------------------- *)

\* User.to_dict() (models.py:23-30), without created_at.
NoUser == [id |-> None, username |-> "", email |-> "", is_active |-> FALSE]
ToDict(user) ==
    [id |-> user.id, username |-> user.username, email |-> user.email,
     is_active |-> user.is_active]

\* What a view function returns: jsonify(...) is a Response object (tuple =
\* FALSE, status 200); "jsonify(...), code" is a Python tuple (tuple = TRUE).
\* fact/view_count carry Fact.to_dict() when the body is a fact; facts is the
\* list of GET /favorites; user is User.to_dict(); access_token is the token
\* of /login; favorites_count is that of /profile.
NoResponse ==
    [status |-> 0, tuple |-> FALSE, msg |-> "", fact |-> 0, view_count |-> 0,
     facts |-> {}, user |-> NoUser, access_token |-> NoToken, favorites_count |-> 0,
     retry_after |-> "", items |-> <<>>,
     pagination |-> [page |-> 0, pages |-> 0, per_page |-> 0, total |-> 0],
     categories |-> {}, database |-> "",
     stats |-> [total_users |-> 0, active_users |-> 0, total_facts |-> 0,
                active_facts |-> 0, total_favorites |-> 0]]
Json(msg) == [NoResponse EXCEPT !.status = 200, !.msg = msg]
JsonCode(msg, code) ==
    [NoResponse EXCEPT !.status = code, !.tuple = TRUE, !.msg = msg]
FactJson(f, vc) ==
    [Json("fact") EXCEPT !.fact = f, !.view_count = vc]
\* Lines 207-215: items is the list of the facts' to_dict(), by id.
PageJson(items, page, pages, per_page, total) ==
    [Json("facts page") EXCEPT
        !.items = items,
        !.pagination = [page |-> page, pages |-> pages, per_page |-> per_page,
                        total |-> total]]
\* Line 256: the list of the facts' to_dict().
FactsJson(fs) == [Json("facts") EXCEPT !.facts = fs]
\* Mutant of CreatedJson: the register that answers 400 after its commit.
CreatedAsBadRequest(u) ==
    [JsonCode("User created successfully", 400) EXCEPT !.user = u]
\* Line 172: the new user's record, with 201.
CreatedJson(u) == [JsonCode("User created successfully", 201) EXCEPT !.user = u]
\* Line 190: the token and the user's record.
TokenJson(token, u) == [Json("token") EXCEPT !.access_token = token, !.user = u]
\* Lines 309-312: the user's record and the count of the favorites.
\* Line 115: the body has 'retry_after', the string str(e.retry_after) of the
\* RateLimitExceeded the limiter raised; what the string says is the
\* library's and is not modelled.
RateLimitJson ==
    [JsonCode("Rate limit exceeded", 429) EXCEPT !.retry_after = "str(e.retry_after)"]
\* Lines 123-132: the welcome message with a fact's to_dict(), or with the
\* string "No facts available" (fact 0 here).
HomeJson(f, vc) == [Json("Welcome to the Enhanced Random Facts API") EXCEPT
                        !.fact = f, !.view_count = vc]
\* Lines 144-149.
HealthJson(db_status) == [Json("Service is running") EXCEPT !.database = db_status]
\* Line 243.
CategoriesJson(cs) == [Json("categories") EXCEPT !.categories = cs]
\* Lines 318-329, without api_calls_today.
StatsJson(users, facts, fav) ==
    [Json("stats") EXCEPT
        !.stats = [total_users |-> Cardinality(users),
                   active_users |-> Cardinality({u \in users : u.is_active}),
                   total_facts |-> Cardinality(DOMAIN facts),
                   active_facts |-> Cardinality({f \in DOMAIN facts : facts[f].is_active}),
                   total_favorites |-> Cardinality({k \in DOMAIN fav : fav[k] > 0})]]
ProfileJson(u, n) == [Json("profile") EXCEPT !.user = u, !.favorites_count = n]

(* ------------------------------- session -------------------------------- *)

\* A request's session holds the handler's uncommitted changes as a set of
\*   [op |-> "view",   u |-> 0, f |-> fact, vc |-> value]  fact.view_count = value
\*   [op |-> "add",    u |-> user, f |-> fact, vc |-> 0]   INSERT INTO favorite
\*   [op |-> "delete", u |-> user, f |-> fact, vc |-> 0]   DELETE of the row loaded
\* commit() flushes them in one transaction; rollback() discards them.

PendingCount(pending, op, k) ==
    Cardinality({p \in pending : p.op = op /\ <<p.u, p.f>> = k})

\* Mutant of UniqueUsername: the column without unique=True.
NoUniqueUsername(users, username) == TRUE

\* Mutant of UniqueUserFact: the table without its unique constraint.
NoUniqueConstraint(fav, u, f) == TRUE

\* UniqueConstraint('user_id', 'fact_id'): the insert is refused when a row of
\* the pair is already stored.
UniqueUserFact(fav, u, f) == fav[<<u, f>>] = 0

IntegrityOk(pending, fav) ==
    \A p \in pending : p.op = "add" => UniqueUserFact(fav, p.u, p.f)

\* username and email of table user are unique=True (models.py:9-10).
UniqueUsername(users, username) == \A row \in users : row.username # username
UniqueEmail(users, email) == \A row \in users : row.email # email

\* new_users: the User objects added to the session, whose id is None until
\* the insert.
UserIntegrityOk(new_users, users) ==
    \A n \in new_users :
        UniqueUsername(users, n.username) /\ UniqueEmail(users, n.email)

\* The primary key the store gives the next row of table user.
NextUserId(users) == Cardinality(users) + 1

\* Mutant of FlushUser: the commit that inserts no user row.
FlushNoUser(new_users, users) == users

\* INSERT INTO user
FlushUser(new_users, users) ==
    users \cup {[id |-> NextUserId(users), username |-> n.username, email |-> n.email,
                 password_hash |-> n.password_hash, is_active |-> n.is_active] :
                    n \in new_users}

\* Mutant of FlushFact: the update without its WHERE clause.
FlushEveryFact(pending, fact) ==
    [f \in DOMAIN fact |->
        IF \E p \in pending : p.op = "view"
        THEN [fact[f] EXCEPT
                !.view_count = (CHOOSE p \in pending : p.op = "view").vc]
        ELSE fact[f]]

\* UPDATE fact SET view_count = <the value computed in Python> WHERE id = f
FlushFact(pending, fact) ==
    [f \in DOMAIN fact |->
        IF \E p \in pending : p.op = "view" /\ p.f = f
        THEN [fact[f] EXCEPT
                !.view_count = (CHOOSE p \in pending : p.op = "view" /\ p.f = f).vc]
        ELSE fact[f]]

\* Mutant of FlushFavorite: the DELETE without the user in its WHERE clause.
FlushFavoriteOfAnyUser(pending, fav) ==
    [k \in DOMAIN fav |->
        IF \E p \in pending : p.op = "delete" /\ p.f = k[2] THEN 0
        ELSE fav[k] + PendingCount(pending, "add", k)]

\* INSERT adds a row; DELETE removes the loaded row, and matches nothing when
\* another request has removed it meanwhile.
FlushFavorite(pending, fav) ==
    [k \in DOMAIN fav |->
        LET n == fav[k] + PendingCount(pending, "add", k)
                        - PendingCount(pending, "delete", k)
        IN  IF n < 0 THEN 0 ELSE n]

\* Mutant of FlushUsage: the flush that replaces the stored rows.
OverwriteUsage(rows, usage) == rows

\* INSERT INTO api_usage: the session holds only new ApiUsage objects (line
\* 64); no route loads, changes or deletes one.
FlushUsage(rows, usage) == usage \o rows

\* Mutant of CommitOutcomes: a commit waits while another request is at
\* its commit.
CommitOutcomesBlocked(q) ==
    IF Cardinality({r \in DOMAIN reqs : reqs[r].pc = "commit"}) > 1 THEN {}
    ELSE {"ok"}

\* How a commit can end: "ok"; "integrity" when the unique constraint refuses
\* it; "storage" when the storage layer fails for a reason of its own.
CommitOutcomes(q) ==
    (IF IntegrityOk(q.pending, Favorite) /\ UserIntegrityOk(q.new_users, User)
     THEN {"ok"} ELSE {"integrity"})
        \cup (IF failures < MaxFail THEN {"storage"} ELSE {})

\* db.session.commit() of the session of request q together with the new
\* usage `rows`, and the db.session.rollback() of the except branch when it
\* fails.
SessionCommit(q, rows, outcome) ==
    /\ User' = IF outcome = "ok" THEN FlushUser(q.new_users, User) ELSE User
    /\ Fact' = IF outcome = "ok" THEN FlushFact(q.pending, Fact) ELSE Fact
    /\ Favorite' = IF outcome = "ok" THEN FlushFavorite(q.pending, Favorite) ELSE Favorite
    /\ ApiUsage' = IF outcome = "ok" THEN FlushUsage(rows, ApiUsage) ELSE ApiUsage
    /\ failures' = IF outcome = "storage" THEN failures + 1 ELSE failures

\* Mutant of Rollback: the except branch without db.session.rollback().
NoRollback(q) == q

\* db.session.rollback() of the except branches (lines 175, 235, 278, 295):
\* the session forgets what the handler added, changed and deleted.
Rollback(q) == [q EXCEPT !.pending = {}, !.new_users = {}]

\* The session of request q after the handler's try/except around commit():
\* a commit that succeeded has flushed everything, a failed one is rolled
\* back.
AfterCommit(q, outcome) ==
    IF outcome = "ok" THEN [q EXCEPT !.pending = {}, !.new_users = {}]
    ELSE Rollback(q)

(* ------------------------------- requests ------------------------------- *)

\* What a client sends.  token is the bearer token, NoToken for none; json is
\* the state of the body:
\* "ok" (an object with fact_id), "missing" (no fact_id), "malformed" (does
\* not parse), "nonstring" (the password is a JSON number), "" (no body).
Input(endpoint, method, token, category, json, fact_id) ==
    [endpoint |-> endpoint, method |-> method, token |-> token,
     category |-> category, json |-> json, fact_id |-> fact_id,
     username |-> "", email |-> "", password |-> "",
     page |-> 1, per_page |-> DefaultPerPage]

\* POST /register and POST /login: the body's username, email and password.
Credentials(endpoint, json, username, email, password) ==
    [Input(endpoint, "POST", NoToken, "", json, 0) EXCEPT
        !.username = username, !.email = email, !.password = password]

\* GET /facts?page=..&per_page=..[&category=..] (lines 197-199; a value that
\* is missing or not an integer is the default).
FactsQuery(page, per_page, category) ==
    [Input("get_facts", "GET", NoToken, category, "", 0) EXCEPT
        !.page = page, !.per_page = per_page]

\* GET /facts/random[?category=...]
PickInputs ==
    {Input("random_fact", "GET", NoToken, c, "", 0) : c \in {"", "science", "history"}}

\* POST and DELETE /favorites by either user, of any fact id
FavoriteInputs ==
    {Input("manage_favorites", m, t, "", "ok", f) :
        m \in {"POST", "DELETE"}, t \in Tokens, f \in FactIds \cup {AbsentFactId}}

\* @jwt_required() decorates these view functions.
Protected(endpoint) == endpoint \in {"manage_favorites", "get_profile", "admin_stats"}

\* A request entering track_usage.  Lines 35-40: user_id is get_jwt_identity(),
\* which has an identity only after jwt_required has verified the token.
\* The fields from `handler` on are history, not program state: whether the
\* handler was invoked, what the handler's commit and the usage commit came
\* to, the stored view_count just before and after the handler's commit,
\* whether the handler raised, the minute window of the limiter it came in.
NewRequest(in) ==
    [endpoint |-> in.endpoint, method |-> in.method, token |-> in.token,
     category |-> in.category, json |-> in.json, fact_id |-> in.fact_id,
     username |-> in.username, email |-> in.email, password |-> in.password,
     page |-> in.page, per_page |-> in.per_page,
     pc |-> "handler",
     user_id |-> IF Protected(in.endpoint) THEN GetJwtIdentity(in.token) ELSE None,
     fact |-> 0, pending |-> {}, new_users |-> {},
     response |-> NoResponse, response_code |-> 0, returned |-> NoResponse,
     handler |-> TRUE, commit |-> "", usage |-> "", vc_before |-> 0,
     vc_after |-> 0, raised |-> FALSE, window |-> 0]

\* A request answered before track_usage is entered.
Rejected(in, resp) ==
    [NewRequest(in) EXCEPT !.pc = "done", !.user_id = None, !.returned = resp,
                           !.handler = FALSE]

(* ----------------------------- rate limiter ----------------------------- *)

\* The view functions of the model (request.endpoint).
Endpoints ==
    {"home", "health_check", "register", "login", "get_facts", "random_fact",
     "get_categories", "manage_favorites", "get_profile", "admin_stats"}

\* @limiter.limit on a route (lines 152, 178) takes the place of the default
\* limits on that route.
OwnLimit(endpoint) == endpoint \in {"register", "login"}
PerMinute(endpoint) ==
    CASE endpoint = "register" -> RegisterPerMinute
      [] endpoint = "login" -> LoginPerMinute
      [] OTHER -> DefaultPerMinute

\* Mutant of Admitted: a limiter that refuses nothing.
AdmittedAlways(h, endpoint) == TRUE

\* default_limits = ["200 per hour", "50 per minute"] (lines 24-27), keyed by
\* the remote address and counted for each view function apart; register and
\* login have their per-minute limit alone.  h.at[e] counts the requests the
\* limiter let pass to view function e in its current minute and its
\* current hour; the hour count of register and of login is history, the
\* limiter keeps none.  All requests come from one address.
Admitted(h, endpoint) ==
    /\ h.at[endpoint].minute < PerMinute(endpoint)
    /\ OwnLimit(endpoint) \/ h.at[endpoint].hour < DefaultPerHour

\* Mutant of Hit: the hit is not counted.
HitNotCounted(h, endpoint) == h

Hit(h, endpoint) ==
    [h EXCEPT !.at[endpoint].minute = @ + 1, !.at[endpoint].hour = @ + 1]

\* The counters when the behaviour starts; prior keeps them and window
\* counts the minute windows of each view function that have ended since
\* (both history).
Counters(at) ==
    [at |-> at, prior |-> at, window |-> [e \in Endpoints |-> 0]]

\* Hits already counted when the behaviour starts: none; one short of the
\* per-minute limit; one short of 200 in the hour and none in this minute.
PriorHits ==
    {Counters([e \in Endpoints |-> [minute |-> 0, hour |-> 0]]),
     Counters([e \in Endpoints |-> [minute |-> PerMinute(e) - 1,
                                    hour |-> PerMinute(e) - 1]]),
     Counters([e \in Endpoints |-> [minute |-> 0, hour |-> DefaultPerHour - 1]])}

(* ------------------------------ track_usage ----------------------------- *)

\* Lines 44-46: 200 unless the value the handler returned has a status_code
\* attribute; a Response object has one, a (response, code) tuple has not.
ResponseCode(resp) == IF resp.tuple THEN 200 ELSE resp.status

\* Lines 43-46: f returned resp.
Returned(q, resp) ==
    [q EXCEPT !.response = resp, !.response_code = ResponseCode(resp), !.pc = "record"]

\* Mutant of Raised: the except branch takes the code from the response, as
\* the try branch does, rather than setting 500.
RaisedCodeFromResponse(q) ==
    [q EXCEPT !.response = JsonCode("Internal server error", 500),
              !.response_code = ResponseCode(JsonCode("Internal server error", 500)),
              !.raised = TRUE, !.pc = "record"]

\* Lines 47-49: f raised.
Raised(q) ==
    [q EXCEPT !.response = JsonCode("Internal server error", 500),
              !.response_code = 500, !.raised = TRUE, !.pc = "record"]

\* Lines 54-61; req is the request the row was written for.
UsageRow(r, q) ==
    [endpoint |-> q.endpoint, method |-> q.method, user_id |-> q.user_id,
     response_code |-> q.response_code, req |-> r]

\* Mutant of UsageRows: the row is added only when the handler returned.
UsageRowsUnlessRaised(r, q) == IF q.raised THEN <<>> ELSE <<UsageRow(r, q)>>

\* Line 64: the rows db.session.add() puts in the session.
UsageRows(r, q) == <<UsageRow(r, q)>>

\* Mutant of ReturnValue: a failed usage commit turns the response into a 500.
ReturnValueFailing(q, outcome) ==
    IF outcome = "ok" THEN q.response ELSE JsonCode("Internal server error", 500)

\* Line 69: what decorated_function returns, given how the usage commit ended.
ReturnValue(q, outcome) == q.response

(* ------------------------------- pipeline ------------------------------- *)

Requests == 1..Len(reqs)
Tables == <<User, Fact, Favorite, ApiUsage>>

\* The limiter runs before the view function and its decorators: over the
\* limit, the 429 handler answers (line 113-115).
Arrive(q) == Append(reqs, [q EXCEPT !.window = hits.window[q.endpoint]])

RateLimited(W, n) ==
    \E in \in W :
        /\ Len(reqs) < n
        /\ ~Admitted(hits, in.endpoint)
        /\ reqs' = Arrive(Rejected(in, RateLimitJson))
        /\ UNCHANGED <<Tables, hits, failures>>

\* jwt_required() is outside track_usage (lines 246-247, 298-299, 315-316):
\* without a token that verifies, the request is answered 401 and neither
\* track_usage nor the handler runs.
Unauthorized(W, n) ==
    \E in \in W :
        /\ Len(reqs) < n
        /\ Admitted(hits, in.endpoint)
        /\ Protected(in.endpoint) /\ JwtError(in.token) # None
        /\ hits' = Hit(hits, in.endpoint)
        /\ reqs' = Arrive(Rejected(in, JsonCode(JwtMessage(in.token),
                                               JwtError(in.token))))
        /\ UNCHANGED <<Tables, failures>>

\* The request is admitted, authenticated where the route asks for it, and
\* track_usage calls the handler.
Enter(W, n) ==
    \E in \in W :
        /\ Len(reqs) < n
        /\ Admitted(hits, in.endpoint)
        /\ Protected(in.endpoint) => JwtError(in.token) = None
        /\ hits' = Hit(hits, in.endpoint)
        /\ reqs' = Arrive(NewRequest(in))
        /\ UNCHANGED <<Tables, failures>>

\* The minute window of view function e ends: the fixed window began with
\* its first hit, and its count starts again from 0.
MinuteExpires(e) ==
    /\ hits.at[e].minute > 0
    /\ hits.window[e] < MaxExpiry
    /\ hits' = [hits EXCEPT !.at[e].minute = 0, !.window[e] = @ + 1]
    /\ UNCHANGED <<Tables, reqs, failures>>

\* track_usage, lines 54-69: add the usage row, commit (rollback when the
\* commit fails) and return the response.
Record(r) ==
    LET q == reqs[r] IN
    /\ q.pc = "record"
    /\ \E outcome \in CommitOutcomes(q) :
        /\ SessionCommit(q, UsageRows(r, q), outcome)
        /\ reqs' = [reqs EXCEPT ![r] =
                [q EXCEPT !.pc = "done", !.pending = {}, !.usage = outcome,
                          !.returned = ReturnValue(q, outcome)]]
    /\ UNCHANGED hits

(* ------------------------------ random_fact ----------------------------- *)

\* Mutant of Matching: the query without the category filter.
ActiveFacts(fact, category) == {f \in DOMAIN fact : fact[f].is_active}

\* Lines 220-224: the active facts, of the category when one is given.
Matching(fact, category) ==
    {f \in DOMAIN fact :
        fact[f].is_active /\ (category # "" => fact[f].category = category)}

\* Line 231: fact.view_count += 1 on the loaded object: the new value is
\* computed from the value the query read.
Increment(loaded) == loaded + 1

\* Lines 220-231: the query picks any matching fact; 404 when there is none.
RandomFactQuery(r) ==
    LET q == reqs[r] IN
    /\ q.pc = "handler" /\ q.endpoint = "random_fact"
    /\ IF Matching(Fact, q.category) = {}
       THEN reqs' = [reqs EXCEPT ![r] = Returned(q, JsonCode("No facts found", 404))]
       ELSE \E f \in Matching(Fact, q.category) :
               reqs' = [reqs EXCEPT ![r] =
                   [q EXCEPT !.pc = "commit", !.fact = f,
                             !.pending = {[op |-> "view", u |-> 0, f |-> f,
                                           vc |-> Increment(Fact[f].view_count)]}]]
    /\ UNCHANGED <<Tables, hits, failures>>

\* Lines 232-235: commit, or rollback when the commit fails.
RandomFactCommit(r) ==
    LET q == reqs[r] IN
    /\ q.pc = "commit" /\ q.endpoint = "random_fact"
    /\ \E outcome \in CommitOutcomes(q) :
        /\ SessionCommit(q, <<>>, outcome)
        /\ reqs' = [reqs EXCEPT ![r] =
                [AfterCommit(q, outcome) EXCEPT !.pc = "result", !.commit = outcome,
                          !.vc_before = Fact[q.fact].view_count,
                          !.vc_after = Fact'[q.fact].view_count]]
    /\ UNCHANGED hits

\* Line 237: to_dict() reads the row again (commit and rollback both expire
\* the loaded object), so the body carries the stored view_count.
RandomFactResult(r) ==
    LET q == reqs[r] IN
    /\ q.pc = "result" /\ q.endpoint = "random_fact"
    /\ reqs' = [reqs EXCEPT ![r] =
            Returned(q, FactJson(q.fact, Fact[q.fact].view_count))]
    /\ UNCHANGED <<Tables, hits, failures>>

(* --------------------------- manage_favorites --------------------------- *)

FavoriteKey(q) == <<q.user_id, q.fact_id>>

\* Mutant of AlreadyFavorite: the add without its existence check.
NeverFavorite(fav, k) == FALSE

\* Lines 267-268: Favorite.query.filter_by(user_id, fact_id).first() finds a row.
AlreadyFavorite(fav, k) == fav[k] > 0

\* Mutant of NotFavorite: the remove without its existence check.
AlwaysFavorite(fav, k) == FALSE

\* Lines 285-286: the same query finds no row.
NotFavorite(fav, k) == fav[k] = 0

\* Mutant of ListFavorites: the join without the filter on Fact.is_active.
ListFavoritesOfAnyFact(fav, fact, u) ==
    {f \in DOMAIN fact : fav[<<u, f>>] > 0}

\* Lines 252-255: the facts joined to the favorites of user u, the active
\* ones.  The response lists each once: the pair is unique in the table.
ListFavorites(fav, fact, u) ==
    {f \in DOMAIN fact : fav[<<u, f>>] > 0 /\ fact[f].is_active}

\* Mutant of FactNotFound: the lookup without the is_active test.
FactAbsent(fact, fact_id) == fact_id \notin DOMAIN fact

\* Lines 263-264: Fact.query.get(fact_id) finds no row, or an inactive one.
FactNotFound(fact, fact_id) ==
    fact_id \notin DOMAIN fact \/ ~fact[fact_id].is_active

\* Lines 259-272: get_json() raises on a body that does not parse; then the
\* checks, then the new row is added to the session.  Rows of table fact are
\* neither deleted nor deactivated by any route, so the fact lookup and the
\* lookup of the existing favorite read one state of the store.
FavoriteAddCheck(r) ==
    LET q == reqs[r] IN
    /\ q.pc = "handler" /\ q.endpoint = "manage_favorites" /\ q.method = "POST"
    /\ reqs' = [reqs EXCEPT ![r] =
            CASE q.json = "malformed" -> Raised(q)
              [] q.json = "missing" -> Returned(q, JsonCode("Missing fact_id", 400))
              [] q.json = "ok" /\ FactNotFound(Fact, q.fact_id) ->
                    Returned(q, JsonCode("Fact not found", 404))
              [] OTHER ->
                    IF AlreadyFavorite(Favorite, FavoriteKey(q))
                    THEN Returned(q, JsonCode("Already in favorites", 400))
                    ELSE [q EXCEPT !.pc = "commit",
                                   !.pending = {[op |-> "add", u |-> q.user_id,
                                                 f |-> q.fact_id, vc |-> 0]}]]
    /\ UNCHANGED <<Tables, hits, failures>>

\* Lines 273-278.
FavoriteAddCommit(r) ==
    LET q == reqs[r] IN
    /\ q.pc = "commit" /\ q.endpoint = "manage_favorites" /\ q.method = "POST"
    /\ \E outcome \in CommitOutcomes(q) :
        /\ SessionCommit(q, <<>>, outcome)
        /\ reqs' = [reqs EXCEPT ![r] =
                Returned([AfterCommit(q, outcome) EXCEPT !.commit = outcome],
                         IF outcome = "ok"
                         THEN JsonCode("Added to favorites", 201)
                         ELSE JsonCode("Failed to add favorite", 500))]
    /\ UNCHANGED hits

\* Lines 281-289.
FavoriteRemoveCheck(r) ==
    LET q == reqs[r] IN
    /\ q.pc = "handler" /\ q.endpoint = "manage_favorites" /\ q.method = "DELETE"
    /\ reqs' = [reqs EXCEPT ![r] =
            CASE q.json = "malformed" -> Raised(q)
              [] q.json = "missing" -> Returned(q, JsonCode("Missing fact_id", 400))
              [] OTHER ->
                    IF NotFavorite(Favorite, FavoriteKey(q))
                    THEN Returned(q, JsonCode("Not in favorites", 404))
                    ELSE [q EXCEPT !.pc = "commit",
                                   !.pending = {[op |-> "delete", u |-> q.user_id,
                                                 f |-> q.fact_id, vc |-> 0]}]]
    /\ UNCHANGED <<Tables, hits, failures>>

\* Lines 290-295.
FavoriteRemoveCommit(r) ==
    LET q == reqs[r] IN
    /\ q.pc = "commit" /\ q.endpoint = "manage_favorites" /\ q.method = "DELETE"
    /\ \E outcome \in CommitOutcomes(q) :
        /\ SessionCommit(q, <<>>, outcome)
        /\ reqs' = [reqs EXCEPT ![r] =
                Returned([AfterCommit(q, outcome) EXCEPT !.commit = outcome],
                         IF outcome = "ok"
                         THEN Json("Removed from favorites")
                         ELSE JsonCode("Failed to remove favorite", 500))]
    /\ UNCHANGED hits

\* Lines 251-256: GET /favorites.
FavoriteList(r) ==
    LET q == reqs[r] IN
    /\ q.pc = "handler" /\ q.endpoint = "manage_favorites" /\ q.method = "GET"
    /\ reqs' = [reqs EXCEPT ![r] =
            Returned(q, FactsJson(ListFavorites(Favorite, Fact, q.user_id)))]
    /\ UNCHANGED <<Tables, hits, failures>>

(* ------------------------------- get_facts ------------------------------ *)

Min(a, b) == IF a < b THEN a ELSE b

\* The rows of a query in the order of their ids.
RECURSIVE ById_Ascending(_)
ById_Ascending(ids) ==
    IF ids = {} THEN <<>>
    ELSE LET least == CHOOSE x \in ids : \A y \in ids : x <= y
         IN  <<least>> \o ById_Ascending(ids \ {least})

\* Line 198: min(per_page, 50).
PerPage(per_page) == Min(per_page, MaxPerPage)

\* Query.paginate(page, per_page, error_out=False): a page below 1 is page 1;
\* a negative per_page is 20; per_page = 0 is 20 or stays 0, as the release of
\* Flask-SQLAlchemy has it.
PaginatePage(page) == IF page < 1 THEN 1 ELSE page
PaginatePerPages(per_page) ==
    IF per_page < 0 THEN {PaginatePerPage}
    ELSE IF per_page = 0 THEN {0, PaginatePerPage}
    ELSE {per_page}

\* Pagination.items: LIMIT per_page OFFSET (page - 1) * per_page.
PageItems(rows, page, per_page) ==
    SubSeq(rows, (page - 1) * per_page + 1, Min(page * per_page, Len(rows)))

\* Pagination.pages: ceil(total / per_page), 0 when per_page is 0.
Pages(total, per_page) ==
    IF per_page = 0 THEN 0 ELSE (total + per_page - 1) \div per_page

\* Lines 197-215.  The metadata has the handler's page and per_page, not
\* those paginate() used.
GetFacts(r) ==
    LET q == reqs[r]
        rows == ById_Ascending(Matching(Fact, q.category))
        per_page == PerPage(q.per_page) IN
    /\ q.pc = "handler" /\ q.endpoint = "get_facts"
    /\ \E used \in PaginatePerPages(per_page) :
        reqs' = [reqs EXCEPT ![r] =
            Returned(q, PageJson(PageItems(rows, PaginatePage(q.page), used),
                                 q.page, Pages(Len(rows), used), per_page,
                                 Len(rows)))]
    /\ UNCHANGED <<Tables, hits, failures>>

(* ------------------------------- register ------------------------------- *)

\* .first() of a query on a unique column: the row, when there is one.
First(rows) == CHOOSE row \in rows : TRUE
ByUsername(users, username) == {row \in users : row.username = username}
ByEmail(users, email) == {row \in users : row.email = email}
ById(users, id) == {row \in users : row.id = id}

\* Mutant of UsernameTaken: register without its lookup of the username.
UsernameNeverTaken(users, username) == FALSE

\* Line 160: User.query.filter_by(username=...).first() finds a row.
UsernameTaken(users, username) == ByUsername(users, username) # {}

\* Lines 155-161: the body, then the lookup of the username.
RegisterCheckUsername(r) ==
    LET q == reqs[r] IN
    /\ q.pc = "handler" /\ q.endpoint = "register"
    /\ reqs' = [reqs EXCEPT ![r] =
            CASE q.json = "malformed" -> Raised(q)
              [] q.json = "missing" ->
                    Returned(q, JsonCode("Missing required fields", 400))
              [] OTHER ->
                    IF UsernameTaken(User, q.username)
                    THEN Returned(q, JsonCode("Username already exists", 400))
                    ELSE [q EXCEPT !.pc = "email"]]
    /\ UNCHANGED <<Tables, hits, failures>>

\* Lines 163-169: the lookup of the email, then the new User object with its
\* password hash (bcrypt.gensalt() draws the salt) added to the session.
\* set_password calls password.encode, which a JSON number does not have.
RegisterCheckEmail(r) ==
    LET q == reqs[r] IN
    /\ q.pc = "email" /\ q.endpoint = "register"
    /\ \E salt \in Salts :
        reqs' = [reqs EXCEPT ![r] =
            CASE ByEmail(User, q.email) # {} ->
                    Returned(q, JsonCode("Email already exists", 400))
              [] q.json = "nonstring" -> Raised(q)
              [] OTHER ->
                    [q EXCEPT !.pc = "commit",
                              !.new_users = {[id |-> None, username |-> q.username,
                                              email |-> q.email,
                                              password_hash |-> HashPw(q.password, salt),
                                              is_active |-> TRUE]}]]
    /\ UNCHANGED <<Tables, hits, failures>>

\* Lines 170-175; user.to_dict() has the id the insert gave the row.
RegisterCommit(r) ==
    LET q == reqs[r]
        user == First(q.new_users) IN
    /\ q.pc = "commit" /\ q.endpoint = "register"
    /\ \E outcome \in CommitOutcomes(q) :
        /\ SessionCommit(q, <<>>, outcome)
        /\ reqs' = [reqs EXCEPT ![r] =
                Returned([AfterCommit(q, outcome) EXCEPT !.commit = outcome],
                         IF outcome = "ok"
                         THEN CreatedJson([ToDict(user) EXCEPT !.id = NextUserId(User)])
                         ELSE JsonCode("Failed to create user", 500))]
    /\ UNCHANGED hits

(* -------------------------------- login --------------------------------- *)

\* Mutant of Authenticated: the test without user.is_active.
PasswordVerified(user, password) ==
    CheckPassword(user.password_hash, password)

\* Line 188, for a user that was found and a password that is a string.
Authenticated(user, password) ==
    CheckPassword(user.password_hash, password) /\ user.is_active

\* Lines 186-192.  `user and user.check_password(...)` calls check_password
\* only when a user was found; check_password calls password.encode, which a
\* JSON number does not have.
LoginResult(q, users) ==
    LET found == ByUsername(users, q.username) IN
    IF found = {}
    THEN Returned(q, JsonCode("Invalid credentials", 401))
    ELSE IF q.json = "nonstring"
    THEN Raised(q)
    ELSE IF Authenticated(First(found), q.password)
    THEN Returned(q, TokenJson(CreateAccessToken(First(found).id),
                               ToDict(First(found))))
    ELSE Returned(q, JsonCode("Invalid credentials", 401))

\* Lines 181-192.
Login(r) ==
    LET q == reqs[r] IN
    /\ q.pc = "handler" /\ q.endpoint = "login"
    /\ reqs' = [reqs EXCEPT ![r] =
            CASE q.json = "malformed" -> Raised(q)
              [] q.json = "missing" ->
                    Returned(q, JsonCode("Missing username or password", 400))
              [] OTHER -> LoginResult(q, User)]
    /\ UNCHANGED <<Tables, hits, failures>>

(* ------------------------------ get_profile ----------------------------- *)

RECURSIVE SumRows(_, _)
SumRows(fav, keys) ==
    IF keys = {} THEN 0
    ELSE LET k == CHOOSE x \in keys : TRUE
         IN  fav[k] + SumRows(fav, keys \ {k})

\* Line 307: Favorite.query.filter_by(user_id=user_id).count()
FavoritesCount(fav, user_id) ==
    SumRows(fav, {k \in DOMAIN fav : k[1] = user_id})

\* Lines 301-312.
GetProfile(r) ==
    LET q == reqs[r]
        found == ById(User, q.user_id) IN
    /\ q.pc = "handler" /\ q.endpoint = "get_profile"
    /\ reqs' = [reqs EXCEPT ![r] =
            IF found = {}
            THEN Returned(q, JsonCode("User not found", 404))
            ELSE Returned(q, ProfileJson(ToDict(First(found)),
                                         FavoritesCount(Favorite, q.user_id)))]
    /\ UNCHANGED <<Tables, hits, failures>>

(* ------------------------- the read-only routes ------------------------- *)

\* Mutant of HomeSession: home counting the view as random_fact does.
HomeSessionCountingView(fact, f) ==
    {[op |-> "view", u |-> 0, f |-> f, vc |-> Increment(fact[f].view_count)]}

\* Lines 120-121: home reads the fact and its to_dict(); it assigns no
\* attribute, so the session has nothing to flush.
HomeSession(fact, f) == {}

\* Lines 117-132: GET /.
Home(r) ==
    LET q == reqs[r] IN
    /\ q.pc = "handler" /\ q.endpoint = "home"
    /\ IF Matching(Fact, "") = {}
       THEN reqs' = [reqs EXCEPT ![r] = Returned(q, HomeJson(0, 0))]
       ELSE \E f \in Matching(Fact, "") :
               reqs' = [reqs EXCEPT ![r] =
                   Returned([q EXCEPT !.pending = HomeSession(Fact, f)],
                            HomeJson(f, Fact[f].view_count))]
    /\ UNCHANGED <<Tables, hits, failures>>

\* Lines 134-149: GET /health; SELECT 1 may fail, the answer is 200 anyway.
HealthCheck(r) ==
    LET q == reqs[r] IN
    /\ q.pc = "handler" /\ q.endpoint = "health_check"
    /\ \E db_status \in {"healthy", "unhealthy"} :
        reqs' = [reqs EXCEPT ![r] = Returned(q, HealthJson(db_status))]
    /\ UNCHANGED <<Tables, hits, failures>>

\* Lines 239-243: GET /facts/categories.
GetCategories(r) ==
    LET q == reqs[r] IN
    /\ q.pc = "handler" /\ q.endpoint = "get_categories"
    /\ reqs' = [reqs EXCEPT ![r] =
            Returned(q, CategoriesJson({Fact[f].category : f \in Matching(Fact, "")}))]
    /\ UNCHANGED <<Tables, hits, failures>>

\* Lines 314-329: GET /admin/stats.
AdminStats(r) ==
    LET q == reqs[r] IN
    /\ q.pc = "handler" /\ q.endpoint = "admin_stats"
    /\ reqs' = [reqs EXCEPT ![r] = Returned(q, StatsJson(User, Fact, Favorite))]
    /\ UNCHANGED <<Tables, hits, failures>>

(* ---------------------------- specifications ---------------------------- *)

\* Table favorite is empty; its keys are the pairs the requests can name (a
\* foreign key is not checked against table fact).
\* The users are those of the seed's tokens and the one the next register
\* creates.
FavoriteSeed ==
    [k \in (UserIds \cup {NextUserId(UserSeed)}) \X (FactIds \cup {AbsentFactId}) |-> 0]

\* The store after create_app and the test seed, the users registered, no
\* favorite, no usage row.
Init ==
    /\ User = UserSeed
    /\ Fact = FactSeed
    /\ Favorite = FavoriteSeed
    /\ ApiUsage = <<>>
    /\ hits \in PriorHits
    /\ reqs = <<>>
    /\ failures = 0

\* Concurrent GET /facts/random requests.
NextPick ==
    \/ RateLimited(PickInputs, MaxPicks)
    \/ Enter(PickInputs, MaxPicks)
    \/ \E r \in Requests : RandomFactQuery(r)
    \/ \E r \in Requests : RandomFactCommit(r)
    \/ \E r \in Requests : RandomFactResult(r)
    \/ \E r \in Requests : Record(r)

SpecPick == Init /\ [][NextPick]_vars

\* Concurrent POST and DELETE /favorites requests.
NextFavorite ==
    \/ RateLimited(FavoriteInputs, MaxReq)
    \/ Enter(FavoriteInputs, MaxReq)
    \/ \E r \in Requests : FavoriteAddCheck(r)
    \/ \E r \in Requests : FavoriteAddCommit(r)
    \/ \E r \in Requests : FavoriteRemoveCheck(r)
    \/ \E r \in Requests : FavoriteRemoveCommit(r)
    \/ \E r \in Requests : Record(r)

SpecFavorite == Init /\ [][NextFavorite]_vars

\* No request is in flight: the next request is sent after the response to
\* the one before.
Idle == \A r \in Requests : reqs[r].pc = "done"

\* Table favorite with a row left from before fact 3 was deactivated.
FavoriteSeeds ==
    {FavoriteSeed, [FavoriteSeed EXCEPT ![<<2, 3>>] = 1]}

InitSequential ==
    /\ User = UserSeed
    /\ Fact = FactSeed
    /\ Favorite \in FavoriteSeeds
    /\ ApiUsage = <<>>
    /\ hits \in PriorHits
    /\ reqs = <<>>
    /\ failures = 0

\* GET /facts/random requests sent one after the other.
NextSequentialPick ==
    \/ Idle /\ RateLimited(PickInputs, MaxSeq)
    \/ Idle /\ Enter(PickInputs, MaxSeq)
    \/ \E r \in Requests : RandomFactQuery(r)
    \/ \E r \in Requests : RandomFactCommit(r)
    \/ \E r \in Requests : RandomFactResult(r)
    \/ \E r \in Requests : Record(r)

SpecSequentialPick == Init /\ [][NextSequentialPick]_vars

\* POST, DELETE and GET /favorites by either user, of the active facts
SequentialFavoriteInputs ==
    {Input("manage_favorites", m, t, "", "ok", f) :
        m \in {"POST", "DELETE"}, t \in Tokens, f \in {1, 2}}
    \cup {Input("manage_favorites", "GET", t, "", "", 0) : t \in Tokens}

\* /favorites requests sent one after the other.
NextSequentialFavorite ==
    \/ Idle /\ RateLimited(SequentialFavoriteInputs, MaxSeq)
    \/ Idle /\ Enter(SequentialFavoriteInputs, MaxSeq)
    \/ \E r \in Requests : FavoriteAddCheck(r)
    \/ \E r \in Requests : FavoriteAddCommit(r)
    \/ \E r \in Requests : FavoriteRemoveCheck(r)
    \/ \E r \in Requests : FavoriteRemoveCommit(r)
    \/ \E r \in Requests : FavoriteList(r)
    \/ \E r \in Requests : Record(r)

SpecSequentialFavorite == InitSequential /\ [][NextSequentialFavorite]_vars

\* POST /register of a new account, of a new username with the same email,
\* and with a password that is a number
RegisterInputs ==
    {Credentials("register", "ok", "dave", "dave@x.com", "pw3"),
     Credentials("register", "ok", "erin", "dave@x.com", "pw3"),
     Credentials("register", "nonstring", "fred", "fred@x.com", "")}

\* POST /login with the password of the account, with another account's
\* password, of the inactive account, of an unknown username, of the account
\* RegisterInputs creates, and with a password that is a number
LoginInputs ==
    {Credentials("login", "ok", "alice", "", pw) : pw \in {"pw1", "pw2"}}
    \cup {Credentials("login", "ok", u, "", "pw1") : u \in {"carol", "zed"}}
    \cup {Credentials("login", "ok", "dave", "", "pw3"),
          Credentials("login", "nonstring", "alice", "", ""),
          Credentials("login", "nonstring", "zed", "", "")}

\* The tokens the logins of the behaviour have returned.
IssuedTokens ==
    {reqs[r].returned.access_token :
        r \in {x \in Requests : reqs[x].endpoint = "login"
                                /\ reqs[x].returned.status = 200}}

\* GET /profile with a token a login returned
ProfileInputs ==
    {Input("get_profile", "GET", t, "", "", 0) : t \in IssuedTokens}

AccountInputs == RegisterInputs \cup LoginInputs \cup ProfileInputs

\* /register, /login and /profile requests sent one after the other.
NextAccount ==
    \/ Idle /\ RateLimited(AccountInputs, MaxSeq)
    \/ Idle /\ Enter(AccountInputs, MaxSeq)
    \/ \E r \in Requests : RegisterCheckUsername(r)
    \/ \E r \in Requests : RegisterCheckEmail(r)
    \/ \E r \in Requests : RegisterCommit(r)
    \/ \E r \in Requests : Login(r)
    \/ \E r \in Requests : GetProfile(r)
    \/ \E r \in Requests : Record(r)

SpecAccount == Init /\ [][NextAccount]_vars

\* Racing writes: POST /register of one username with two emails and of one
\* email with two usernames, and POST /favorites of one pair
ConflictInputs ==
    {Credentials("register", "ok", u, e, "pw3") :
        u \in {"dave", "erin"}, e \in {"dave@x.com", "erin@x.com"}}
    \cup {Input("manage_favorites", "POST", CreateAccessToken(1), "", "ok", 1)}

\* Concurrent /register and POST /favorites requests.
NextRegister ==
    \/ RateLimited(ConflictInputs, MaxReq)
    \/ Enter(ConflictInputs, MaxReq)
    \/ \E r \in Requests : RegisterCheckUsername(r)
    \/ \E r \in Requests : RegisterCheckEmail(r)
    \/ \E r \in Requests : RegisterCommit(r)
    \/ \E r \in Requests : FavoriteAddCheck(r)
    \/ \E r \in Requests : FavoriteAddCommit(r)
    \/ \E r \in Requests : Record(r)

SpecRegister == Init /\ [][NextRegister]_vars

\* Tokens that jwt_required() refuses.
RefusedTokens == {NoToken, MalformedToken, ExpiredToken(1)}

\* The token-protected routes of the model with a token that is refused, and
\* the /favorites routes with the token of user 1
ProtectedInputs ==
    {Input("manage_favorites", m, t, "", "ok", 1) :
        m \in {"POST", "DELETE"}, t \in RefusedTokens \cup {CreateAccessToken(1)}}
    \cup {Input("manage_favorites", "GET", t, "", "", 0) :
            t \in RefusedTokens \cup {CreateAccessToken(1)}}
    \cup {Input(e, "GET", t, "", "", 0) :
            e \in {"get_profile", "admin_stats"}, t \in RefusedTokens}

\* Concurrent requests to the token-protected routes.
NextProtected ==
    \/ RateLimited(ProtectedInputs, MaxReq)
    \/ Unauthorized(ProtectedInputs, MaxReq)
    \/ Enter(ProtectedInputs, MaxReq)
    \/ \E r \in Requests : FavoriteAddCheck(r)
    \/ \E r \in Requests : FavoriteAddCommit(r)
    \/ \E r \in Requests : FavoriteRemoveCheck(r)
    \/ \E r \in Requests : FavoriteRemoveCommit(r)
    \/ \E r \in Requests : FavoriteList(r)
    \/ \E r \in Requests : Record(r)

SpecProtected == Init /\ [][NextProtected]_vars

\* POST /register and POST /login with a body that lacks a field
BurstInputs ==
    {Credentials(e, "missing", "", "", "") : e \in {"register", "login"}}

\* One client sends requests to /register and /login one after the other
\* while minute windows end.
NextLimiter ==
    \/ Idle /\ RateLimited(BurstInputs, MaxBurst)
    \/ Idle /\ Enter(BurstInputs, MaxBurst)
    \/ \E e \in {"register", "login"} : MinuteExpires(e)
    \/ \E r \in Requests : RegisterCheckUsername(r)
    \/ \E r \in Requests : Login(r)
    \/ \E r \in Requests : Record(r)

\* The store of Init; the storage layer fails no commit of the behaviour
\* (the limiter runs before anything is stored).
InitLimiter ==
    /\ User = UserSeed
    /\ Fact = FactSeed
    /\ Favorite = FavoriteSeed
    /\ ApiUsage = <<>>
    /\ hits \in PriorHits
    /\ reqs = <<>>
    /\ failures = MaxFail

SpecLimiter == InitLimiter /\ [][NextLimiter]_vars

\* Table fact with more active facts than a page can hold.
ManyFacts ==
    [f \in 1..(MaxPerPage + 2) |->
        [category |-> "test", is_active |-> TRUE, view_count |-> 0]]

InitFacts ==
    /\ User = UserSeed
    /\ Fact \in {FactSeed, ManyFacts}
    /\ Favorite = FavoriteSeed
    /\ ApiUsage = <<>>
    /\ hits \in PriorHits
    /\ reqs = <<>>
    /\ failures = 0

\* GET /facts with pages below, at and past the first, and sizes below 0, 0,
\* small, at the cap and above it
FactsInputs ==
    {FactsQuery(p, s, c) :
        p \in {-1, 0, 1, 2, 3},
        s \in {-1, 0, 1, 2, DefaultPerPage, MaxPerPage, MaxPerPage + 1},
        c \in {"", "science"}}

\* GET /facts requests sent one after the other.
NextFacts ==
    \/ Idle /\ Enter(FactsInputs, MaxPages)
    \/ \E r \in Requests : GetFacts(r)
    \/ \E r \in Requests : Record(r)

SpecFacts == InitFacts /\ [][NextFacts]_vars

\* One client's journey (test_integration.py:23-86): register, login, browse
\* the facts, add the first fact listed to the favorites, list them, remove
\* it, list them again.
Journey == <<"register", "login", "get_facts", "add", "list", "remove", "list">>

\* The token the login of the journey returned (line 42), and the id of the
\* first fact GET /facts listed (line 64).
JourneyToken ==
    IF Len(reqs) >= 2 THEN reqs[2].returned.access_token ELSE NoToken
JourneyFact ==
    IF Len(reqs) >= 3 /\ reqs[3].returned.items # <<>>
    THEN reqs[3].returned.items[1] ELSE AbsentFactId

JourneyStep(n) ==
    CASE Journey[n] = "register" ->
            Credentials("register", "ok", "dave", "dave@x.com", "pw3")
      [] Journey[n] = "login" -> Credentials("login", "ok", "dave", "", "pw3")
      [] Journey[n] = "get_facts" -> FactsQuery(1, DefaultPerPage, "")
      [] Journey[n] = "add" ->
            Input("manage_favorites", "POST", JourneyToken, "", "ok", JourneyFact)
      [] Journey[n] = "remove" ->
            Input("manage_favorites", "DELETE", JourneyToken, "", "ok", JourneyFact)
      [] OTHER -> Input("manage_favorites", "GET", JourneyToken, "", "", 0)

\* The request the client sends next.
JourneyInputs ==
    IF Len(reqs) < Len(Journey) THEN {JourneyStep(Len(reqs) + 1)} ELSE {}

\* The username and the email of the journey are unused; the first active
\* fact is fact 1 or fact 2; other users may have favorites.
InitJourney ==
    /\ User = UserSeed
    /\ Fact \in {FactSeed, [FactSeed EXCEPT ![1].is_active = FALSE]}
    /\ Favorite \in {FavoriteSeed,
                     [FavoriteSeed EXCEPT ![<<1, 1>>] = 1, ![<<2, 2>>] = 1]}
    /\ ApiUsage = <<>>
    /\ hits \in PriorHits
    /\ reqs = <<>>
    /\ failures = 0

\* The requests of the journey, each sent after the response to the one
\* before.
NextJourney ==
    \/ Idle /\ RateLimited(JourneyInputs, Len(Journey))
    \/ Idle /\ Unauthorized(JourneyInputs, Len(Journey))
    \/ Idle /\ Enter(JourneyInputs, Len(Journey))
    \/ \E r \in Requests : RegisterCheckUsername(r)
    \/ \E r \in Requests : RegisterCheckEmail(r)
    \/ \E r \in Requests : RegisterCommit(r)
    \/ \E r \in Requests : Login(r)
    \/ \E r \in Requests : GetFacts(r)
    \/ \E r \in Requests : FavoriteAddCheck(r)
    \/ \E r \in Requests : FavoriteAddCommit(r)
    \/ \E r \in Requests : FavoriteRemoveCheck(r)
    \/ \E r \in Requests : FavoriteRemoveCommit(r)
    \/ \E r \in Requests : FavoriteList(r)
    \/ \E r \in Requests : Record(r)

SpecJourney == InitJourney /\ [][NextJourney]_vars

\* POST /register and POST /login with Content-Type application/json and a
\* body that does not parse, and with a body that does
MalformedInputs ==
    {Credentials(e, "malformed", "", "", "") : e \in {"register", "login"}}
    \cup {Credentials("register", "ok", "dave", "dave@x.com", "pw3"),
          Credentials("login", "ok", "alice", "", "pw1")}

\* /register and /login requests sent one after the other.
NextMalformed ==
    \/ Idle /\ RateLimited(MalformedInputs, MaxSeq)
    \/ Idle /\ Enter(MalformedInputs, MaxSeq)
    \/ \E r \in Requests : RegisterCheckUsername(r)
    \/ \E r \in Requests : RegisterCheckEmail(r)
    \/ \E r \in Requests : RegisterCommit(r)
    \/ \E r \in Requests : Login(r)
    \/ \E r \in Requests : Record(r)

SpecMalformed == Init /\ [][NextMalformed]_vars

\* The writes of the API: POST /register, POST /favorites of a fact that is
\* not a favorite, DELETE /favorites of one that is, GET /facts/random.
WriteInputs ==
    {Credentials("register", "ok", "dave", "dave@x.com", "pw3"),
     Input("manage_favorites", "POST", CreateAccessToken(1), "", "ok", 2),
     Input("manage_favorites", "DELETE", CreateAccessToken(1), "", "ok", 1),
     Input("random_fact", "GET", NoToken, "", "", 0)}

\* The store of Init with fact 1 among the favorites of user 1.
InitWrites ==
    /\ User = UserSeed
    /\ Fact = FactSeed
    /\ Favorite = [FavoriteSeed EXCEPT ![<<1, 1>>] = 1]
    /\ ApiUsage = <<>>
    /\ hits \in PriorHits
    /\ reqs = <<>>
    /\ failures = 0

\* Concurrent writes.
NextWrites ==
    \/ RateLimited(WriteInputs, MaxReq)
    \/ Enter(WriteInputs, MaxReq)
    \/ \E r \in Requests : RegisterCheckUsername(r)
    \/ \E r \in Requests : RegisterCheckEmail(r)
    \/ \E r \in Requests : RegisterCommit(r)
    \/ \E r \in Requests : FavoriteAddCheck(r)
    \/ \E r \in Requests : FavoriteAddCommit(r)
    \/ \E r \in Requests : FavoriteRemoveCheck(r)
    \/ \E r \in Requests : FavoriteRemoveCommit(r)
    \/ \E r \in Requests : RandomFactQuery(r)
    \/ \E r \in Requests : RandomFactCommit(r)
    \/ \E r \in Requests : RandomFactResult(r)
    \/ \E r \in Requests : Record(r)

SpecWrites == InitWrites /\ [][NextWrites]_vars

\* GET /facts (public) and GET /favorites, GET /profile (token-protected),
\* each with a valid token, without a token and with a token that does not
\* verify.
IdentityInputs ==
    {Input(e, "GET", t, "", "", 0) :
        e \in {"get_facts", "manage_favorites", "get_profile"},
        t \in Tokens \cup {NoToken, MalformedToken}}

\* Concurrent reads with and without an identity.
NextIdentity ==
    \/ RateLimited(IdentityInputs, MaxReq)
    \/ Unauthorized(IdentityInputs, MaxReq)
    \/ Enter(IdentityInputs, MaxReq)
    \/ \E r \in Requests : GetFacts(r)
    \/ \E r \in Requests : FavoriteList(r)
    \/ \E r \in Requests : GetProfile(r)
    \/ \E r \in Requests : Record(r)

SpecIdentity == Init /\ [][NextIdentity]_vars

\* POST and DELETE /favorites of fact 1, GET /favorites and GET /profile, by
\* either user
CountInputs ==
    {Input("manage_favorites", m, t, "", "ok", 1) :
        m \in {"POST", "DELETE"}, t \in Tokens}
    \cup {Input(e, "GET", t, "", "", 0) :
            e \in {"manage_favorites", "get_profile"}, t \in Tokens}

\* /favorites and /profile requests sent one after the other.
NextCounts ==
    \/ Idle /\ RateLimited(CountInputs, MaxSeq)
    \/ Idle /\ Enter(CountInputs, MaxSeq)
    \/ \E r \in Requests : FavoriteAddCheck(r)
    \/ \E r \in Requests : FavoriteAddCommit(r)
    \/ \E r \in Requests : FavoriteRemoveCheck(r)
    \/ \E r \in Requests : FavoriteRemoveCommit(r)
    \/ \E r \in Requests : FavoriteList(r)
    \/ \E r \in Requests : GetProfile(r)
    \/ \E r \in Requests : Record(r)

SpecCounts == InitSequential /\ [][NextCounts]_vars

\* A register, a login, an add, a remove and a pick.
PipelineInputs ==
    {Credentials("register", "ok", "dave", "dave@x.com", "pw3"),
     Credentials("login", "ok", "alice", "", "pw1"),
     Input("manage_favorites", "POST", CreateAccessToken(1), "", "ok", 2),
     Input("manage_favorites", "DELETE", CreateAccessToken(1), "", "ok", 1),
     Input("random_fact", "GET", NoToken, "science", "", 0)}

\* The steps of request r after its arrival: the view function and
\* track_usage run on the request's own thread.
StepOf(r) ==
    /\ r \in Requests
    /\ \/ RegisterCheckUsername(r) \/ RegisterCheckEmail(r) \/ RegisterCommit(r)
       \/ Login(r)
       \/ FavoriteAddCheck(r) \/ FavoriteAddCommit(r)
       \/ FavoriteRemoveCheck(r) \/ FavoriteRemoveCommit(r)
       \/ RandomFactQuery(r) \/ RandomFactCommit(r) \/ RandomFactResult(r)
       \/ Record(r)

\* The store of InitWrites, no hit counted yet: the limiter admits every
\* request of the behaviour (one it refuses is answered at once).
InitPipeline ==
    /\ User = UserSeed
    /\ Fact = FactSeed
    /\ Favorite = [FavoriteSeed EXCEPT ![<<1, 1>>] = 1]
    /\ ApiUsage = <<>>
    /\ hits = Counters([e \in Endpoints |-> [minute |-> 0, hour |-> 0]])
    /\ reqs = <<>>
    /\ failures = 0

\* Concurrent register, login, add, remove and pick requests.
NextPipeline ==
    \/ Enter(PipelineInputs, MaxReq)
    \/ \E r \in 1..MaxReq : StepOf(r)

\* Every thread that serves a request is scheduled again and again.
SpecPipeline ==
    /\ InitPipeline /\ [][NextPipeline]_vars
    /\ \A r \in 1..MaxReq : WF_vars(StepOf(r))

\* The routes that only read: GET /, /health, /facts, /facts/categories,
\* /favorites, /profile, /admin/stats and POST /login with the right and
\* with a wrong password.
ReadInputs ==
    {Input(e, "GET", NoToken, "", "", 0) :
        e \in {"home", "health_check", "get_facts", "get_categories"}}
    \cup {Input(e, "GET", CreateAccessToken(1), "", "", 0) :
            e \in {"manage_favorites", "get_profile", "admin_stats"}}
    \cup {Credentials("login", "ok", "alice", "", pw) : pw \in {"pw1", "pw2"}}

\* Concurrent requests to the routes that only read.
NextReads ==
    \/ RateLimited(ReadInputs, MaxReq)
    \/ Enter(ReadInputs, MaxReq)
    \/ \E r \in Requests : Home(r)
    \/ \E r \in Requests : HealthCheck(r)
    \/ \E r \in Requests : GetFacts(r)
    \/ \E r \in Requests : GetCategories(r)
    \/ \E r \in Requests : FavoriteList(r)
    \/ \E r \in Requests : GetProfile(r)
    \/ \E r \in Requests : AdminStats(r)
    \/ \E r \in Requests : Login(r)
    \/ \E r \in Requests : Record(r)

SpecReads == InitWrites /\ [][NextReads]_vars

\* POST and DELETE /favorites by either user, of fact 1 and of a fact that
\* does not exist
OwnFavoriteInputs ==
    {Input("manage_favorites", m, t, "", "ok", f) :
        m \in {"POST", "DELETE"}, t \in Tokens, f \in {1, AbsentFactId}}

\* The store of Init; fact 1 may be among the favorites of either user.
InitOwnFavorites ==
    /\ User = UserSeed
    /\ Fact = FactSeed
    /\ Favorite \in {FavoriteSeed,
                     [FavoriteSeed EXCEPT ![<<1, 1>>] = 1, ![<<2, 1>>] = 1]}
    /\ ApiUsage = <<>>
    /\ hits \in PriorHits
    /\ reqs = <<>>
    /\ failures = 0

\* Concurrent adds and removes of two users.
NextOwnFavorites ==
    \/ RateLimited(OwnFavoriteInputs, MaxReq)
    \/ Enter(OwnFavoriteInputs, MaxReq)
    \/ \E r \in Requests : FavoriteAddCheck(r)
    \/ \E r \in Requests : FavoriteAddCommit(r)
    \/ \E r \in Requests : FavoriteRemoveCheck(r)
    \/ \E r \in Requests : FavoriteRemoveCommit(r)
    \/ \E r \in Requests : Record(r)

SpecOwnFavorites == InitOwnFavorites /\ [][NextOwnFavorites]_vars

\* Requests that are refused: a register without its fields and of a taken
\* username, a login with a wrong password, an add without fact_id, of an
\* inactive fact and of a fact that is a favorite already, a remove of a fact
\* that is no favorite, a request without token; and a register and an add
\* that succeed.
ErrorInputs ==
    {Credentials("register", "missing", "", "", ""),
     Credentials("register", "ok", "alice", "new@x.com", "pw3"),
     Credentials("register", "ok", "dave", "dave@x.com", "pw3"),
     Credentials("login", "ok", "alice", "", "pw2"),
     Input("manage_favorites", "POST", CreateAccessToken(1), "", "missing", 0),
     Input("manage_favorites", "POST", CreateAccessToken(1), "", "ok", 3),
     Input("manage_favorites", "POST", CreateAccessToken(1), "", "ok", 2),
     Input("manage_favorites", "DELETE", CreateAccessToken(1), "", "ok", 1),
     Input("manage_favorites", "GET", NoToken, "", "", 0)}

\* Concurrent requests, most of them refused.
NextErrors ==
    \/ RateLimited(ErrorInputs, MaxReq)
    \/ Unauthorized(ErrorInputs, MaxReq)
    \/ Enter(ErrorInputs, MaxReq)
    \/ \E r \in Requests : RegisterCheckUsername(r)
    \/ \E r \in Requests : RegisterCheckEmail(r)
    \/ \E r \in Requests : RegisterCommit(r)
    \/ \E r \in Requests : Login(r)
    \/ \E r \in Requests : FavoriteAddCheck(r)
    \/ \E r \in Requests : FavoriteAddCommit(r)
    \/ \E r \in Requests : FavoriteRemoveCheck(r)
    \/ \E r \in Requests : Record(r)

SpecErrors == Init /\ [][NextErrors]_vars

\* Every route of the model and every way through its handler: with and
\* without a token, with a body that is complete, incomplete or unparseable,
\* naming an active, an inactive or an absent fact.
AllInputs ==
    {Input("random_fact", "GET", NoToken, c, "", 0) : c \in {"", "history"}}
    \cup {Input("manage_favorites", "POST", CreateAccessToken(1), "", "ok", f) : f \in {1, 3}}
    \cup {Input("manage_favorites", "POST", CreateAccessToken(1), "", j, 0) : j \in {"missing", "malformed"}}
    \cup {Input("manage_favorites", "DELETE", t, "", "ok", 1) :
            t \in {CreateAccessToken(1), NoToken}}
    \cup {Input("manage_favorites", "DELETE", CreateAccessToken(1), "", "malformed", 0)}

Next ==
    \/ RateLimited(AllInputs, MaxReq)
    \/ Unauthorized(AllInputs, MaxReq)
    \/ Enter(AllInputs, MaxReq)
    \/ \E r \in Requests : RandomFactQuery(r)
    \/ \E r \in Requests : RandomFactCommit(r)
    \/ \E r \in Requests : RandomFactResult(r)
    \/ \E r \in Requests : FavoriteAddCheck(r)
    \/ \E r \in Requests : FavoriteAddCommit(r)
    \/ \E r \in Requests : FavoriteRemoveCheck(r)
    \/ \E r \in Requests : FavoriteRemoveCommit(r)
    \/ \E r \in Requests : Record(r)

Spec == Init /\ [][Next]_vars

(* -------------------------------- claims -------------------------------- *)

Done(r) == reqs[r].pc = "done"
\* The usage rows written for request r.
RowsOf(r) == {i \in DOMAIN ApiUsage : ApiUsage[i].req = r}
AddOf(r) == reqs[r].endpoint = "manage_favorites" /\ reqs[r].method = "POST"
PickOf(r) == reqs[r].endpoint = "random_fact"

\* C1: in every reachable state, whatever the interleaving of concurrent
\* POST /favorites requests, table favorite holds at most one row for each
\* (user_id, fact_id) pair.
C1_FavoritePairUnique == \A k \in DOMAIN Favorite : Favorite[k] <= 1

\* Two adds of one pair both passed the existence check; one was committed
\* and the constraint refused the other.
C1_Witness ==
    \E r1, r2 \in Requests :
        /\ AddOf(r1) /\ AddOf(r2)
        /\ FavoriteKey(reqs[r1]) = FavoriteKey(reqs[r2])
        /\ reqs[r1].commit = "ok" /\ reqs[r2].commit = "integrity"
        /\ Favorite[FavoriteKey(reqs[r1])] = 1

\* C2: of concurrent adds of one pair (u, f), one is answered Created (201)
\* and each other AlreadyExists (400): an add that passed the existence check
\* and was not stopped by a failure of the storage layer is answered 201 when
\* its insert is committed and 400 when the unique constraint refuses it.
C2_RacingAddAlreadyExists ==
    \A r \in Requests :
        (Done(r) /\ AddOf(r) /\ reqs[r].commit \in {"ok", "integrity"}) =>
            reqs[r].returned.status = (IF reqs[r].commit = "ok" THEN 201 ELSE 400)

\* C3: picks of one fact lose no update: the stored view_count of every fact
\* is its seed value plus the number of picks of it whose commit succeeded.
C3_NoLostUpdate ==
    \A f \in DOMAIN Fact :
        Fact[f].view_count = FactSeed[f].view_count
            + Cardinality({r \in Requests :
                    PickOf(r) /\ reqs[r].fact = f /\ reqs[r].commit = "ok"})

\* C4: the stored view_count of every fact is non-negative and no step
\* decreases it.
C4_ViewCountMonotonic ==
    [][\A f \in DOMAIN Fact :
          Fact[f].view_count >= 0 /\ Fact'[f].view_count >= Fact[f].view_count]_vars

\* C5: a pick answered 200 with fact f has raised the stored view_count of f
\* by exactly one, with a commit that succeeded before the response was built.
C5_PickIncrementsByOne ==
    \A r \in Requests :
        (PickOf(r) /\ reqs[r].response.status = 200) =>
            /\ reqs[r].commit = "ok"
            /\ reqs[r].vc_after = reqs[r].vc_before + 1

\* C6: a request whose handler was invoked has exactly one usage row once its
\* usage commit has succeeded, whether the handler returned a success, an
\* error or raised; it never has two, and has none before that commit.
C6_OneUsageRowPerRequest ==
    \A r \in Requests :
        reqs[r].handler =>
            Cardinality(RowsOf(r)) = (IF reqs[r].usage = "ok" THEN 1 ELSE 0)

\* Two requests are recorded: one whose handler raised, one whose handler
\* returned.
C6_Witness ==
    \E r1, r2 \in Requests :
        /\ reqs[r1].handler /\ reqs[r1].usage = "ok" /\ reqs[r1].raised
        /\ reqs[r2].handler /\ reqs[r2].usage = "ok" /\ ~reqs[r2].raised
        /\ Len(ApiUsage) = 2

\* C7: a request answered 429 by the limiter or 401 by jwt_required is
\* recorded with one usage row carrying that status.
C7_RejectedRequestsRecorded ==
    \A r \in Requests :
        (Done(r) /\ reqs[r].returned.status \in {401, 429}) =>
            \E i \in RowsOf(r) : ApiUsage[i].response_code = reqs[r].returned.status

\* C8: when the handler returned normally, the response_code of the usage row
\* is the HTTP status of the response sent.
C8_RecordedCodeIsStatus ==
    \A r \in Requests :
        ~reqs[r].raised =>
            \A i \in RowsOf(r) : ApiUsage[i].response_code = reqs[r].returned.status

C10_UsageFailureSwallowed ==
    [][\A r \in Requests :
          (reqs[r].pc = "record" /\ reqs'[r].pc = "done" /\ reqs'[r].usage # "ok") =>
              /\ reqs'[r].returned = reqs[r].response
              /\ UNCHANGED <<User, Fact, Favorite>>]_vars

\* An add was committed (201), then the usage commit of that request failed,
\* and the favorite is stored.
C10_Witness ==
    \E r \in Requests :
        /\ Done(r) /\ AddOf(r)
        /\ reqs[r].commit = "ok" /\ reqs[r].usage = "storage"
        /\ reqs[r].returned.status = 201
        /\ Favorite[FavoriteKey(reqs[r])] = 1


\* C11: an add that names a fact that is absent or inactive is answered 404
\* 'Fact not found' and puts nothing in its session, and no step adds a
\* favorite row of a fact that is absent or inactive.
C11_NotFoundAnswered ==
    \A r \in Requests :
        (AddOf(r) /\ reqs[r].handler /\ reqs[r].json = "ok"
            /\ reqs[r].pc # "handler"
            /\ (reqs[r].fact_id \notin DOMAIN Fact \/ ~Fact[reqs[r].fact_id].is_active)) =>
                /\ reqs[r].response = JsonCode("Fact not found", 404)
                /\ reqs[r].commit = "" /\ reqs[r].pending = {}

C11_AddOfMissingFactNotFound ==
    [][/\ C11_NotFoundAnswered'
       /\ \A k \in DOMAIN Favorite :
            Favorite'[k] > Favorite[k] =>
                k[2] \in DOMAIN Fact /\ Fact[k[2]].is_active]_vars

\* An add of the inactive fact and an add of an absent fact were both
\* answered 404, and no favorite is stored.
C11_Witness ==
    \E r1, r2 \in Requests :
        /\ AddOf(r1) /\ Done(r1) /\ reqs[r1].fact_id = 3
        /\ AddOf(r2) /\ Done(r2) /\ reqs[r2].fact_id = AbsentFactId
        /\ reqs[r1].returned.status = 404 /\ reqs[r2].returned.status = 404
        /\ \A k \in DOMAIN Favorite : Favorite[k] = 0


RemoveOf(r) == reqs[r].endpoint = "manage_favorites" /\ reqs[r].method = "DELETE"
ListOf(r) == reqs[r].endpoint = "manage_favorites" /\ reqs[r].method = "GET"
SameKey(a, b) == FavoriteKey(reqs[a]) = FavoriteKey(reqs[b])
\* The handler of request r ran as far as its first answer or its commit.
Ran(r) == reqs[r].handler /\ reqs[r].json = "ok" /\ reqs[r].pc # "handler"
Latest(r) == r = Len(reqs)
\* A remove of the pair of request a was answered 200 between a and b.
RemovedBetween(a, b) ==
    \E d \in Requests :
        /\ a < d /\ d < b /\ RemoveOf(d) /\ SameKey(a, d)
        /\ reqs[d].returned.status = 200
\* An add of the pair of request a was answered 201 between a and b.
AddedBetween(a, b) ==
    \E d \in Requests :
        /\ a < d /\ d < b /\ AddOf(d) /\ SameKey(a, d)
        /\ reqs[d].returned.status = 201

\* C12: requests sent one after the other: once an add of (u, f) was answered
\* 201, every later add of (u, f) with no remove of (u, f) answered 200 in
\* between is answered 400 'Already in favorites', commits nothing, and
\* leaves the one row of (u, f) in the table.
C12_AddAgainAlreadyExists ==
    \A r1, r2 \in Requests :
        (/\ r1 < r2 /\ AddOf(r1) /\ AddOf(r2) /\ SameKey(r1, r2)
         /\ reqs[r1].returned.status = 201
         /\ ~RemovedBetween(r1, r2)
         /\ Ran(r2)) =>
            /\ reqs[r2].response = JsonCode("Already in favorites", 400)
            /\ reqs[r2].commit = "" /\ reqs[r2].pending = {}
            /\ (Latest(r2) => Favorite[FavoriteKey(reqs[r2])] = 1)

\* An add was answered 201, a remove of the pair in between failed and left
\* the row, and the add sent after it was answered 400.
C12_Witness ==
    \E r1, d, r2 \in Requests :
        /\ r1 < d /\ d < r2 /\ AddOf(r1) /\ RemoveOf(d) /\ AddOf(r2)
        /\ SameKey(r1, d) /\ SameKey(r1, r2)
        /\ reqs[r1].returned.status = 201
        /\ reqs[d].returned.status = 500
        /\ Done(r2) /\ reqs[r2].returned.status = 400
        /\ Favorite[FavoriteKey(reqs[r2])] = 1

\* C13: requests sent one after the other: a remove of (u, f) that finds no
\* row is answered 404 'Not in favorites' and commits nothing; the first
\* remove after an add answered 201 is answered 200 and deletes the row
\* unless the storage layer fails its commit; a remove after a remove
\* answered 200, with no add answered 201 in between, is answered 404.
C13_RemoveOnceThenNotFound ==
    /\ \A d \in Requests :
        (RemoveOf(d) /\ Ran(d) /\ Latest(d) /\ reqs[d].commit = "") =>
            /\ (Favorite[FavoriteKey(reqs[d])] = 0 =>
                    /\ reqs[d].response = JsonCode("Not in favorites", 404)
                    /\ reqs[d].pending = {})
            /\ (Favorite[FavoriteKey(reqs[d])] > 0 => reqs[d].pc = "commit")
    /\ \A r1, d1 \in Requests :
        (/\ r1 < d1 /\ AddOf(r1) /\ RemoveOf(d1) /\ SameKey(r1, d1)
         /\ reqs[r1].returned.status = 201
         /\ ~RemovedBetween(r1, d1)
         /\ Done(d1) /\ reqs[d1].commit # "storage") =>
            /\ reqs[d1].returned = Json("Removed from favorites")
            /\ reqs[d1].commit = "ok"
            /\ (Latest(d1) => Favorite[FavoriteKey(reqs[d1])] = 0)
    /\ \A d1, d2 \in Requests :
        (/\ d1 < d2 /\ RemoveOf(d1) /\ RemoveOf(d2) /\ SameKey(d1, d2)
         /\ reqs[d1].returned.status = 200
         /\ ~AddedBetween(d1, d2)
         /\ Ran(d2)) =>
            /\ reqs[d2].response = JsonCode("Not in favorites", 404)
            /\ reqs[d2].commit = "" /\ reqs[d2].pending = {}
            /\ (Latest(d2) => Favorite[FavoriteKey(reqs[d2])] = 0)

\* An add answered 201, the remove after it answered 200, the remove after
\* that answered 404, and the row is gone.
C13_Witness ==
    \E r1, d1, d2 \in Requests :
        /\ r1 < d1 /\ d1 < d2 /\ AddOf(r1) /\ RemoveOf(d1) /\ RemoveOf(d2)
        /\ SameKey(r1, d1) /\ SameKey(r1, d2)
        /\ reqs[r1].returned.status = 201
        /\ reqs[d1].returned.status = 200
        /\ Done(d2) /\ reqs[d2].returned.status = 404
        /\ Favorite[FavoriteKey(reqs[d2])] = 0

\* C14: requests sent one after the other: the list answered to user u holds
\* only active facts, only facts u has a favorite row for, and every active
\* fact u has a favorite row for.
C14_ListIsOwnActiveFavorites ==
    \A r \in Requests :
        (ListOf(r) /\ reqs[r].handler /\ reqs[r].pc # "handler" /\ Latest(r)) =>
            /\ reqs[r].response.status = 200
            /\ \A f \in reqs[r].response.facts :
                    /\ Fact[f].is_active
                    /\ Favorite[<<GetJwtIdentity(reqs[r].token), f>>] > 0
            /\ \A f \in DOMAIN Fact :
                    (Fact[f].is_active /\ Favorite[<<GetJwtIdentity(reqs[r].token), f>>] > 0) =>
                        f \in reqs[r].response.facts

\* User 2 has favorites of an active fact and of the inactive fact, user 1 a
\* favorite of another active fact, and the list answered to user 2 holds the
\* one active fact of user 2.
C14_Witness ==
    \E r \in Requests :
        /\ ListOf(r) /\ Done(r) /\ reqs[r].token = CreateAccessToken(2)
        /\ Favorite[<<2, 3>>] = 1 /\ Favorite[<<2, 1>>] = 1
        /\ Favorite[<<1, 2>>] = 1 /\ Favorite[<<2, 2>>] = 0
        /\ reqs[r].returned.facts = {1}


LoginOf(r) == reqs[r].endpoint = "login"
RegisterOf(r) == reqs[r].endpoint = "register"
ProfileOf(r) == reqs[r].endpoint = "get_profile"
\* The body of request r has the fields the route asks for.
HasFields(r) == reqs[r].json \in {"ok", "nonstring"}
\* The password of request r verifies against the hash of `user`; a password
\* that is not a string verifies against none.
Verifies(r, user) ==
    reqs[r].json = "ok" /\ CheckPassword(user.password_hash, reqs[r].password)
\* The stored users that the credentials of request r authenticate.
AuthenticatedBy(r) ==
    {user \in User : /\ user.username = reqs[r].username
                     /\ Verifies(r, user)
                     /\ user.is_active}

\* C15: a login whose body has a username and a password is answered with a
\* token of the user when a user of that username exists, the password
\* verifies and the account is active, and with 401 'Invalid credentials' and
\* no token in each other case.
C15_TokenIffAuthenticated ==
    \A r \in Requests :
        (LoginOf(r) /\ reqs[r].handler /\ HasFields(r)
            /\ reqs[r].pc # "handler" /\ Latest(r)) =>
            IF AuthenticatedBy(r) # {}
            THEN /\ reqs[r].response.status = 200
                 /\ \E user \in AuthenticatedBy(r) :
                        reqs[r].response.access_token = CreateAccessToken(user.id)
            ELSE reqs[r].response = JsonCode("Invalid credentials", 401)

C17_WrongPasswordIs401 ==
    \A r \in Requests :
        (/\ LoginOf(r) /\ reqs[r].handler /\ HasFields(r) /\ Done(r)
         /\ \E user \in User :
                user.username = reqs[r].username /\ ~Verifies(r, user)) =>
            /\ reqs[r].returned = JsonCode("Invalid credentials", 401)
            /\ ~reqs[r].raised
            /\ reqs[r].commit = ""

\* The username of request r was in use when r was sent: a seeded account has
\* it, or an earlier register of it was answered 201.
UsernameUsedBefore(r) ==
    \/ \E user \in UserSeed : user.username = reqs[r].username
    \/ \E g \in Requests :
            /\ g < r /\ RegisterOf(g) /\ reqs[g].returned.status = 201
            /\ reqs[g].username = reqs[r].username
EmailUsedBefore(r) ==
    \/ \E user \in UserSeed : user.email = reqs[r].email
    \/ \E g \in Requests :
            /\ g < r /\ RegisterOf(g) /\ reqs[g].returned.status = 201
            /\ reqs[g].email = reqs[r].email

\* C18: requests sent one after the other: a register of a username and an
\* email that are both unused is answered 201, unless the storage layer fails
\* its commit, and stores one row of that username and email; a register of
\* a used username is answered 400 'Username already exists', one of a new
\* username and a used email 400 'Email already exists', and neither stores
\* a row.
C18_RegisterOnce ==
    /\ Cardinality(User) = Cardinality(UserSeed)
            + Cardinality({g \in Requests : RegisterOf(g) /\ reqs[g].commit = "ok"})
    /\ \A r \in Requests :
        (RegisterOf(r) /\ reqs[r].handler /\ reqs[r].json = "ok" /\ Done(r)) =>
            CASE UsernameUsedBefore(r) ->
                    /\ reqs[r].returned = JsonCode("Username already exists", 400)
                    /\ reqs[r].commit = ""
              [] ~UsernameUsedBefore(r) /\ EmailUsedBefore(r) ->
                    /\ reqs[r].returned = JsonCode("Email already exists", 400)
                    /\ reqs[r].commit = ""
              [] OTHER ->
                    reqs[r].commit # "storage" =>
                        /\ reqs[r].returned.status = 201
                        /\ reqs[r].commit = "ok"
                        /\ Cardinality(ByUsername(User, reqs[r].username)) = 1
                        /\ \E user \in User :
                                /\ ToDict(user) = reqs[r].returned.user
                                /\ user.username = reqs[r].username
                                /\ user.email = reqs[r].email
                                /\ CheckPassword(user.password_hash, reqs[r].password)

\* A register was answered 201, the same register sent again 400 'Username
\* already exists', a register of another username with the same email 400
\* 'Email already exists', and one row was stored.
C18_Witness ==
    \E r1, r2, r3 \in Requests :
        /\ r1 < r2 /\ RegisterOf(r1) /\ RegisterOf(r2) /\ RegisterOf(r3) /\ Done(r3)
        /\ reqs[r1].returned.status = 201
        /\ reqs[r2].username = reqs[r1].username /\ reqs[r2].email = reqs[r1].email
        /\ reqs[r2].returned = JsonCode("Username already exists", 400)
        /\ r1 < r3 /\ reqs[r3].username # reqs[r1].username
        /\ reqs[r3].email = reqs[r1].email
        /\ reqs[r3].returned = JsonCode("Email already exists", 400)
        /\ Cardinality(User) = Cardinality(UserSeed) + 1

\* C19: a register or an add whose insert the storage constraint refuses as
\* a duplicate is answered 400.
C19_DuplicateKeyIs400 ==
    \A r \in Requests :
        ((RegisterOf(r) \/ AddOf(r)) /\ Done(r) /\ reqs[r].commit = "integrity") =>
            reqs[r].returned.status = 400

\* C20: no two rows of table user have the same username, and no two the
\* same email.
C20_UsernameAndEmailUnique ==
    \A u1, u2 \in User :
        u1 # u2 => u1.username # u2.username /\ u1.email # u2.email

\* Two registers of one username both passed the lookups, the insert of one
\* was committed and the insert of the other refused, and one row is stored;
\* likewise for one email.
C20_Witness ==
    \E r1, r2 \in Requests :
        /\ r1 # r2 /\ RegisterOf(r1) /\ RegisterOf(r2)
        /\ reqs[r1].commit = "ok" /\ reqs[r2].commit = "integrity"
        /\ reqs[r1].username = reqs[r2].username
        /\ reqs[r1].email # reqs[r2].email
        /\ Cardinality(User) = Cardinality(UserSeed) + 1


\* Request r went to a token-protected route with no token or with one that
\* jwt_required() refuses, and the limiter let it pass.
Refused(r) ==
    /\ Protected(reqs[r].endpoint) /\ reqs[r].token.kind # "valid"
    /\ reqs[r].returned.status # 429
\* The response to request r carries no row of User, Fact or Favorite.
NoRowsIn(resp) ==
    resp.fact = 0 /\ resp.facts = {} /\ resp.user = NoUser

\* C21: a request to a token-protected route with no token or with an
\* invalid, malformed or expired one is answered 401, its handler does not
\* run, its response carries no row and it commits nothing.
C21_RefusedTokenIs401 ==
    \A r \in Requests :
        Refused(r) =>
            /\ reqs[r].returned.status = 401
            /\ ~reqs[r].handler /\ Done(r)
            /\ NoRowsIn(reqs[r].returned)
            /\ reqs[r].commit = "" /\ reqs[r].usage = "" /\ reqs[r].pending = {}


\* The limiter let request r pass.
Passed(r) == reqs[r].returned.status # 429
\* The requests to view function e that came in its minute window w.
InWindow(e, w) == {r \in Requests : reqs[r].endpoint = e /\ reqs[r].window = w}
\* The hits of window w counted before the behaviour started.
PriorIn(e, w) == IF w = 0 THEN hits.prior[e].minute ELSE 0
LimitOf(e) == IF e = "register" THEN RegisterPerMinute ELSE LoginPerMinute

Arriving == reqs'[Len(reqs')]
CountsOf(h, e) == h.at[e]

\* C23: a request that the limiter lets pass raises the minute count and the
\* hour count of its view function by one when it arrives, whatever it is
\* answered afterwards (400, 401, 404 or a success); no later step of the
\* request gives the hit back, and a request answered 429 leaves the counts
\* as they are.
C23_EveryAdmissionCounts ==
    [][IF Len(reqs') = Len(reqs) + 1
       THEN LET e == Arriving.endpoint IN
            /\ \A x \in Endpoints \ {e} : CountsOf(hits', x) = CountsOf(hits, x)
            /\ IF Arriving.returned.status = 429
               THEN CountsOf(hits', e) = CountsOf(hits, e)
               ELSE /\ CountsOf(hits', e).minute = CountsOf(hits, e).minute + 1
                    /\ CountsOf(hits', e).hour = CountsOf(hits, e).hour + 1
       ELSE hits' = hits]_vars

\* With one hit left in the minute, a request answered 400, 401 or 404 took
\* it: the next request to the view function was answered 429.
C23_Witness ==
    \E r1, r2 \in Requests :
        /\ r1 < r2 /\ reqs[r1].endpoint = reqs[r2].endpoint
        /\ reqs[r1].endpoint = "manage_favorites"
        /\ hits.prior["manage_favorites"].minute = DefaultPerMinute - 1
        /\ reqs[r1].returned.status = 401
        /\ reqs[r2].returned.status = 429


\* The requests to view function e that the limiter let pass in the current
\* hour: those counted before the behaviour started and those of the
\* behaviour (no hour ends within a behaviour).
PassedThisHour(e) ==
    hits.prior[e].hour
        + Cardinality({r \in Requests : reqs[r].endpoint = e /\ Passed(r)})

\* C24: the default limit of 200 per hour holds on every route, /register
\* and /login included: no more than 200 requests to one view function pass
\* the limiter within one hour.
C24_DefaultLimitsOnEveryRoute ==
    \A e \in Endpoints : PassedThisHour(e) <= DefaultPerHour


\* View function e has used up its minute or, where the default limits
\* hold, its hour.
OverQuota(e) ==
    \/ hits.at[e].minute >= (IF OwnLimit(e) THEN LimitOf(e) ELSE DefaultPerMinute)
    \/ ~OwnLimit(e) /\ hits.at[e].hour >= DefaultPerHour

FactsOf(r) == reqs[r].endpoint = "get_facts"

\* C26: GET /facts with per_page = s returns no more than s facts, for every
\* integer page and every integer s (0, negative and above the cap of 50
\* included), and the per_page of the pagination metadata is at most 50.
C26_PageSizeRespected ==
    \A r \in Requests :
        (FactsOf(r) /\ reqs[r].handler /\ reqs[r].pc # "handler") =>
            /\ reqs[r].response.status = 200
            /\ Len(reqs[r].response.items) <= reqs[r].per_page
            /\ reqs[r].response.pagination.per_page <= MaxPerPage

\* The requests 1..n of the journey were all admitted by the limiter and no
\* commit of theirs failed in the storage layer.
Smooth(n) ==
    \A r \in 1..n : /\ reqs[r].returned.status # 429
                     /\ reqs[r].commit # "storage"

\* What the journey's request n is answered.
JourneyOutcome(n) ==
    LET resp == reqs[n].returned IN
    CASE n = 1 -> resp.status = 201 /\ resp.user.username = "dave"
      [] n = 2 -> /\ resp.status = 200
                  /\ resp.access_token.kind = "valid"
                  /\ resp.user = reqs[1].returned.user
      [] n = 3 -> resp.status = 200 /\ resp.items # <<>>
      [] n = 4 -> resp.status = 201
      [] n = 5 -> resp.status = 200 /\ resp.facts = {reqs[3].returned.items[1]}
      [] n = 6 -> resp.status = 200
      [] OTHER -> resp.status = 200 /\ resp.facts = {}

\* C27: from a store where the username and the email are unused and an
\* active fact exists, register is answered 201, login with the same
\* credentials 200 with a token, GET /facts 200, POST /favorites of the first
\* fact listed 201, GET /favorites the list of exactly that fact, DELETE
\* /favorites of it 200, and GET /favorites the empty list; every time, as
\* long as the limiter admits the requests and no commit fails in storage.
C27_JourneyOutcomes ==
    \A n \in Requests :
        (reqs[n].pc = "done" /\ Smooth(n)) => JourneyOutcome(n)

\* The whole journey has been answered, by a store in which fact 1 is
\* inactive and other users have favorites.
C27_Witness ==
    /\ Len(reqs) = Len(Journey) /\ Idle /\ Smooth(Len(reqs))
    /\ ~Fact[1].is_active
    /\ Favorite[<<2, 2>>] = 1
    /\ reqs[5].returned.facts = {2}
    /\ reqs[7].returned.facts = {}
    /\ reqs[7].user_id = NextUserId(UserSeed)

\* Request r is a GET /facts/random whose handler has returned.
Picked(r) ==
    PickOf(r) /\ reqs[r].handler /\ reqs[r].pc \in {"record", "done"}

\* Fact f is active and of the category asked for, when one is asked for.
Eligible(f, category) ==
    /\ f \in DOMAIN Fact /\ Fact[f].is_active
    /\ category # "" => Fact[f].category = category

PickAnswers ==
    \A r \in Requests :
        Picked(r) =>
            /\ reqs[r].response.status \in {200, 404}
            /\ reqs[r].response.status = 200 =>
                    Eligible(reqs[r].response.fact, reqs[r].category)
            /\ reqs[r].response.status = 404 <=>
                    ~\E f \in DOMAIN Fact : Eligible(f, reqs[r].category)
            /\ reqs[r].response.status = 404 =>
                    reqs[r].response = JsonCode("No facts found", 404)

\* A step of a request that is answered 404 changes no row of table fact.
EmptyPickKeepsCounters ==
    \A r \in Requests :
        (PickOf(r) /\ reqs'[r] # reqs[r] /\ reqs'[r].response.status = 404) =>
            Fact' = Fact

\* C28: GET /facts/random answers 200 with a fact only if the fact is active
\* and of the category asked for; it answers 404 'No facts found' exactly
\* when no active fact matches, and then no view counter changes.  (That
\* every matching fact can be the result is what C28_Witness reaches.)
C28_RandomFactMatches == [](PickAnswers) /\ [][EmptyPickKeepsCounters]_vars

\* Two picks without a category have returned the two active facts, and a
\* pick of a category without facts has been answered 404.
C28_Witness ==
    /\ \A f \in {x \in DOMAIN Fact : Fact[x].is_active} :
            \E r \in Requests :
                /\ Picked(r) /\ Done(r) /\ reqs[r].category = ""
                /\ reqs[r].returned.status = 200 /\ reqs[r].returned.fact = f
    /\ \E r \in Requests :
            Picked(r) /\ Done(r) /\ reqs[r].returned.status = 404

\* Request r is a /register or /login whose body does not parse and that
\* the limiter admitted.
MalformedOf(r) ==
    /\ RegisterOf(r) \/ LoginOf(r)
    /\ reqs[r].json = "malformed" /\ reqs[r].handler

\* C29: a POST /register or POST /login whose JSON body does not parse is
\* answered 400 and creates no user row.
C29_MalformedJsonIs400 ==
    \A r \in Requests :
        (MalformedOf(r) /\ Done(r)) =>
            /\ reqs[r].returned.status = 400
            /\ reqs[r].new_users = {} /\ reqs[r].commit = ""

\* C30: table api_usage is append-only: a step leaves every stored usage row
\* where it was with all its fields, and the number of rows never decreases.
C30_UsageAppendOnly ==
    [][/\ Len(ApiUsage') >= Len(ApiUsage)
       /\ SubSeq(ApiUsage', 1, Len(ApiUsage)) = ApiUsage]_vars

\* Two requests are recorded, the first before the handler of the second
\* committed a change of its own.
C30_Witness ==
    /\ Len(ApiUsage) > 1
    /\ ApiUsage[1].req # ApiUsage[2].req
    /\ reqs[ApiUsage[2].req].commit = "ok"
    /\ reqs[ApiUsage[1].req].usage = "ok"

\* The handler's commit of request r failed.
CommitFailed(q) == q.commit \notin {"", "ok"}

\* C31: when the commit of a write fails in register, add-favorite,
\* remove-favorite or random-fact, the mutation is rolled back: the step of
\* the failed commit and every later step of the request, the usage commit
\* on the same session included, leave tables user, fact and favorite as they
\* were.
C31_FailedWriteRolledBack ==
    [][\A r \in Requests :
          (reqs'[r] # reqs[r] /\ CommitFailed(reqs'[r])) =>
              UNCHANGED <<User, Fact, Favorite>>]_vars

\* The commits of a register, an add, a remove or a pick failed in the
\* storage layer, the usage commit after it succeeded, and the store holds
\* nothing of the mutation.
C31_Witness ==
    \E r \in Requests :
        /\ Done(r) /\ reqs[r].commit = "storage" /\ reqs[r].usage = "ok"
        /\ RowsOf(r) # {}
        /\ User = UserSeed /\ Fact = FactSeed
        /\ Favorite = [FavoriteSeed EXCEPT ![<<1, 1>>] = 1]

\* The DELETE /favorites requests of the pair k.
RemovesOf(k) == {r \in Requests : RemoveOf(r) /\ FavoriteKey(reqs[r]) = k}

\* C32: of the removes that run against one stored favorite (u, f), none of
\* them stopped by a failure of the storage layer, exactly one is answered
\* 200 'Removed from favorites', every other 404, none with a server error,
\* and afterwards no row of (u, f) is stored.
C32_RacingRemoveOnce ==
    \A k \in DOMAIN Favorite :
        (/\ RemovesOf(k) # {}
         /\ \A r \in RemovesOf(k) : Done(r) /\ reqs[r].commit # "storage") =>
            /\ Cardinality({r \in RemovesOf(k) :
                    reqs[r].returned = Json("Removed from favorites")}) = 1
            /\ \A r \in RemovesOf(k) : reqs[r].returned.status \in {200, 404}
            /\ Favorite[k] = 0

\* C33: the user id of a usage row is the identity of the valid bearer token
\* of its request, on token-protected and public routes alike, and is absent
\* when the request has no token or one that does not verify.
C33_UsageRowHasIdentity ==
    \A i \in DOMAIN ApiUsage :
        LET q == reqs[ApiUsage[i].req] IN
        ApiUsage[i].user_id =
            (IF q.token.kind = "valid" THEN q.token.sub ELSE None)

\* Requests a and b are a GET /favorites and a GET /profile of one user, in
\* either order, with no request between them, both answered 200.
ListThenProfile(a, b) ==
    /\ ListOf(a) /\ ProfileOf(b) /\ reqs[a].token = reqs[b].token
    /\ (a = b + 1 \/ b = a + 1)
    /\ Done(a) /\ Done(b)
    /\ reqs[a].returned.status = 200 /\ reqs[b].returned.status = 200

C35_EveryRequestReturns ==
    /\ <>[](\A r \in Requests : Done(r))
    /\ [][\A r \in Requests : Done(r) => reqs'[r] = reqs[r]]_vars

\* Two adds of one pair were in flight together (the unique constraint
\* refused the second insert) and every request has been answered.
C35_Witness ==
    /\ Len(reqs) = MaxReq /\ Idle
    /\ \E a, b \in Requests :
            /\ AddOf(a) /\ AddOf(b)
            /\ reqs[a].commit = "ok" /\ reqs[b].commit = "integrity"

\* C36: a step of a GET /facts/random request changes at most the
\* view_count of the fact the request picked: every other row of table fact,
\* the other fields of the picked fact, and tables user and favorite are
\* left as they were.
C36_PickChangesOneCounter ==
    [][\A r \in Requests :
          (PickOf(r) /\ reqs'[r] # reqs[r]) =>
              /\ UNCHANGED <<User, Favorite>>
              /\ \A f \in DOMAIN Fact :
                    /\ f # reqs'[r].fact => Fact'[f] = Fact[f]
                    /\ Fact'[f] = [Fact[f] EXCEPT !.view_count = Fact'[f].view_count]]_vars

\* A pick has been answered with fact 2 and has raised its counter; the
\* other facts have theirs, and the favorite and the users of the seed are
\* stored.
C36_Witness ==
    \E r \in Requests :
        /\ PickOf(r) /\ Done(r) /\ reqs[r].commit = "ok"
        /\ reqs[r].returned.fact = 2
        /\ Fact[2].view_count > 0
        /\ Fact[1] = FactSeed[1] /\ Fact[3] = FactSeed[3]
        /\ User = UserSeed /\ Favorite[<<1, 1>>] = 1

\* The requests of SpecReads' routes.
ReadOf(r) ==
    \/ reqs[r].endpoint \in {"home", "health_check", "get_facts", "get_categories",
                              "get_profile", "admin_stats", "login"}
    \/ ListOf(r)

\* C37: GET /, /facts, /facts/categories, /favorites, /profile, /admin/stats,
\* /health and POST /login change no row of tables user, fact and favorite,
\* and add at most one usage row: no step of such a request changes the
\* three tables, and a step adds at most the usage row of its request.
C37_ReadsChangeNothing ==
    [][\A r \in Requests :
          (ReadOf(r) /\ reqs'[r] # reqs[r]) =>
              /\ UNCHANGED <<User, Fact, Favorite>>
              /\ \/ ApiUsage' = ApiUsage
                 \/ /\ RowsOf(r) = {}
                    /\ ApiUsage' = ApiUsage \o UsageRows(r, reqs[r])]_vars

\* GET / has been answered with fact 2 and recorded, the counter of fact 2
\* is the seed's, and a login has returned a token.
C37_Witness ==
    \E h, l \in Requests :
        /\ reqs[h].endpoint = "home" /\ Done(h) /\ reqs[h].usage = "ok"
        /\ reqs[h].returned.fact = 2 /\ Fact[2].view_count = FactSeed[2].view_count
        /\ LoginOf(l) /\ Done(l) /\ reqs[l].returned.access_token = CreateAccessToken(1)
        /\ User = UserSeed /\ Len(ApiUsage) = MaxReq

\* C38: a step of a POST or DELETE /favorites request with the token of user
\* u creates or deletes only a favorite row of u: the rows of every other
\* user are the same before and after, whatever fact the request names.
C38_OnlyOwnFavorites ==
    [][\A r \in Requests :
          ((AddOf(r) \/ RemoveOf(r)) /\ reqs'[r] # reqs[r]) =>
              \A k \in DOMAIN Favorite :
                  k[1] # GetJwtIdentity(reqs[r].token) => Favorite'[k] = Favorite[k]]_vars

\* User 1 has removed fact 1 from the favorites and user 2 has added it (or
\* has it from before): the row of user 2 is stored, that of user 1 is not.
C38_Witness ==
    \E d \in Requests :
        /\ RemoveOf(d) /\ Done(d) /\ reqs[d].token = CreateAccessToken(1)
        /\ reqs[d].fact_id = 1 /\ reqs[d].commit = "ok"
        /\ Favorite[<<1, 1>>] = 0 /\ Favorite[<<2, 1>>] = 1

\* The status of the answer to request q, once it has one.
StatusOf(q) == IF q.handler THEN q.response.status ELSE q.returned.status

\* C39: a request answered 400, 401, 404 or 429 leaves tables user, fact and
\* favorite as they were: no step of such a request changes them; and a step
\* that does change them is a step of a request that is answered in the 2xx
\* range.
C39_ClientErrorChangesNothing ==
    [][/\ \A r \in DOMAIN reqs' :
            (/\ r \in Requests => reqs'[r] # reqs[r]
             /\ StatusOf(reqs'[r]) \in {400, 401, 404, 429}) =>
                UNCHANGED <<User, Fact, Favorite>>
       /\ <<User, Fact, Favorite>>' # <<User, Fact, Favorite>> =>
            \E r \in Requests :
                /\ reqs'[r] # reqs[r]
                /\ StatusOf(reqs'[r]) \in {200, 201}]_vars

\* An add was answered 201 and stored its row; the add of the same fact
\* after it was answered 400 and the one row is stored.
C39_Witness ==
    \E a, b \in Requests :
        /\ a < b /\ AddOf(a) /\ AddOf(b) /\ Done(a) /\ Done(b)
        /\ reqs[a].returned.status = 201
        /\ reqs[b].returned = JsonCode("Already in favorites", 400)
        /\ Favorite[FavoriteKey(reqs[b])] = 1

============================================================================
